---- MODULE Spec2Model ----
(***************************************************************************)
(* A model of the IBD pipeline of bitcoin-echo:                            *)
(*   - the pull-based download manager  (src/src/protocol/download_mgr.c)  *)
(*   - the block availability tracker   (src/src/storage/block_tracker.c)  *)
(*   - the IBD chunk validator          (src/src/node/ibd_validator.c)     *)
(* Each component has its own next-state relation and specification; the   *)
(* variables of the other components keep their initial values.            *)
(***************************************************************************)
EXTENDS Integers, Sequences, FiniteSets, TLC

(***************************************************************************)
(* Bounds of the model.  The constants of download_mgr.h are scaled down   *)
(* (the program has DOWNLOAD_BATCH_SIZE = 8 and                            *)
(* DOWNLOAD_MIN_PEERS_TO_KEEP = 3); every formula below is stated in terms *)
(* of the names, not of the scaled values.                                 *)
(***************************************************************************)
\* heights handed to download_mgr_add_work are 1..MaxHeight
MaxHeight == 3
\* batch nodes calloc can hand out before it returns NULL
MaxNodes == 2
\* DOWNLOAD_BATCH_SIZE, scaled down
DOWNLOAD_BATCH_SIZE == 2
\* DOWNLOAD_MAX_PEERS, scaled down
DOWNLOAD_MAX_PEERS == 2
\* DOWNLOAD_MIN_PEERS_TO_KEEP, scaled down
DOWNLOAD_MIN_PEERS_TO_KEEP == 1
\* DOWNLOAD_MAX_BATCHES, scaled down to the size of the heap
DOWNLOAD_MAX_BATCHES == MaxNodes
\* blocks one call of download_mgr_add_work passes: a full batch and a
\* partial one
MaxAdd == DOWNLOAD_BATCH_SIZE + 1

\* heights given to the block tracker are 0..MaxBtHeight
MaxBtHeight == 9
\* BLOCK_TRACKER_INITIAL_CAPACITY (1024 * 1024 bits in the program), scaled
\* down to one byte of bitmap
BLOCK_TRACKER_INITIAL_CAPACITY == 8

(***************************************************************************)
(* Program constants                                                       *)
(***************************************************************************)
\* DOWNLOAD_PERF_WINDOW_MS: time is counted in performance windows
DOWNLOAD_PERF_WINDOW_MS == 1
\* ACCELERATE_REDUNDANCY
ACCELERATE_REDUNDANCY == 3
\* BLOCK_TRACKER_GROWTH_FACTOR
BLOCK_TRACKER_GROWTH_FACTOR == 2

NULL == 0

VARIABLES
  \* ---- download manager (struct download_mgr) ----
  mgr_nodes,                  \* heap of batch_node_t: node id -> work_batch_t
  mgr_live,                   \* node ids allocated and not freed
  mgr_queue,                  \* queue_head .. queue_tail, as node ids
  mgr_peers,                  \* peers[0 .. peer_count-1]
  mgr_height_bitmap,          \* heights whose bit is set
  mgr_lowest_pending_height,
  mgr_highest_queued_height,
  next_height,                \* the caller's next height to hand to add_work
  mgr_last,                   \* the last call: what it returned and sent
  \* ---- block tracker (struct block_tracker) ----
  bt_validated_tip,
  bt_highest_stored,
  bt_availability_map,        \* heights whose bit is set
  bt_map_capacity,            \* capacity in heights (bits)
  bt_last,                    \* the last call, its argument and its result
  \* ---- IBD validator (ibd_validator_t) and its collaborators ----
  validator,                  \* current_height, last_error, error_height, batch
  utxo_db,                    \* the UTXO store behind validator->utxo_db
  node_blocks,                \* height -> the block stored at that height
  chainstate_utxo_set,        \* the in-memory UTXO set of the chainstate
  validated_log,              \* heights validate_next validated, in order
  ibd_last,                   \* the last call and its result
  \* ---- confirm chaser (chaser_confirm_t) and its worker thread ----
  chaser,                     \* the flags and heights of the chaser
  confirm_worker,             \* the worker's position and its local confirmed
  stored_height,              \* heights 1 .. stored_height can be loaded
  cc_obs,                     \* what was asked of the worker, and when
  confirm_api,                \* a caller of the chaser's public functions
  \* ---- node (struct node) ----
  node,                       \* state, shutdown flag, start time, peers
  node_last,                  \* the last call and its result
  \* ---- block file storage (block_storage_t) and the file system ----
  blk_files,                  \* path -> the file there, if any
  blk_dirs,                   \* the subdirectories that exist
  blk_written,                \* height -> the block last written there
  blk_last,                   \* the last call, its inputs and its result
  \* ---- script context (script_context_t) ----
  ctx,                        \* the stack and the altstack
  stack_last                  \* the last stack call and its result

mgrVars == <<mgr_nodes, mgr_live, mgr_queue, mgr_peers, mgr_height_bitmap,
             mgr_lowest_pending_height, mgr_highest_queued_height,
             next_height, mgr_last>>

btVars == <<bt_validated_tip, bt_highest_stored, bt_availability_map,
            bt_map_capacity, bt_last>>

ibdVars == <<validator, utxo_db, node_blocks, chainstate_utxo_set,
             validated_log, ibd_last>>

ccVars == <<chaser, confirm_worker, stored_height, cc_obs>>
apiVars == <<confirm_api>>

nodeVars == <<node, node_last>>
blkVars == <<blk_files, blk_dirs, blk_written, blk_last>>
stackVars == <<ctx, stack_last>>

notMgr == <<btVars, ibdVars, ccVars, nodeVars, blkVars, stackVars, apiVars>>
notBt == <<mgrVars, ibdVars, ccVars, nodeVars, blkVars, stackVars, apiVars>>
notIbd == <<mgrVars, btVars, ccVars, nodeVars, blkVars, stackVars, apiVars>>
notCc == <<mgrVars, btVars, ibdVars, nodeVars, blkVars, stackVars, apiVars>>
notNode == <<mgrVars, btVars, ibdVars, ccVars, blkVars, stackVars, apiVars>>
notBlk == <<mgrVars, btVars, ibdVars, ccVars, nodeVars, stackVars, apiVars>>
notStack == <<mgrVars, btVars, ibdVars, ccVars, nodeVars, blkVars, apiVars>>
notCcApi == <<mgrVars, btVars, ibdVars, nodeVars, blkVars, stackVars>>

vars ==
  <<mgrVars, btVars, ibdVars, ccVars, nodeVars, blkVars, stackVars, apiVars>>

(***************************************************************************)
(* Helpers                                                                 *)
(***************************************************************************)
Range(s) == {s[i] : i \in DOMAIN s}

Min(S) == CHOOSE x \in S : \A y \in S : x <= y


\* the address of a batch node is opaque: the model names a node by the first
\* height of the batch it is allocated for
NodeIds == 1..MaxHeight
PeerIds == 1..DOWNLOAD_MAX_PEERS
Heights == 1..MaxHeight
\* the hash of the block at a height (hashes are distinct per height)
HashOf(h) == 100 + h
\* a hash that was never requested
UnknownHash == 100
Hashes == {HashOf(h) : h \in Heights} \cup {UnknownHash}
\* block sizes in bytes, up to zero / positive
BlockSizes == {1}

\* calloc(1, sizeof(batch_node_t)): a zeroed node
ZeroBatch == [hashes |-> <<>>, heights |-> <<>>, received |-> <<>>,
              count |-> 0, remaining |-> 0, assigned_time |-> 0]

(***************************************************************************)
(* Time.  plat_time_ms() is an input of the handlers that read it.  A      *)
(* handler only uses the differences now - window_start_time and           *)
(* now - last_delivery_time of a peer, which it compares with one window,  *)
(* two windows and the drain timeout: the model draws these differences    *)
(* (in windows) as inputs of the handler, and keeps the timestamps that    *)
(* are only written and tested against 0 (assigned_time, first_work_time)  *)
(* as 0 or SomeTime.                                                       *)
(***************************************************************************)
SomeTime == 1
\* now - window_start_time: less than a window, or a window and more
WindowAges == {0, DOWNLOAD_PERF_WINDOW_MS}
\* now - last_delivery_time: less than two windows, two windows exactly, or
\* more than two windows
DeliveryAges == {0, DOWNLOAD_PERF_WINDOW_MS * 2, DOWNLOAD_PERF_WINDOW_MS * 3}

\* one clock difference per peer slot, as a handler reads them; the
\* difference of a peer without a batch is never looked at and is drawn as 0
ClockReadings(peers, ages) ==
  {f \in [DOMAIN peers -> ages] :
     \A i \in DOMAIN peers : peers[i].batch = NULL => f[i] = 0}

\* memset(perf, 0, ...) and the assignments of download_mgr_add_peer
NewPeerPerf(p) ==
  [peer |-> p, batch |-> NULL, bytes_this_window |-> 0, bytes_per_second |-> 0,
   first_work_time |-> 0, has_reported |-> FALSE]

\* byte counts and rates are kept up to zero / positive, which is all that
\* the manager ever tests
Positive(x) == IF x > 0 THEN 1 ELSE 0

(***************************************************************************)
(* Batch queue                                                             *)
(***************************************************************************)
\* new work that never reaches the queue
queue_push_back_lost(queue, n) == queue

queue_push_back(queue, n) == Append(queue, n)

\* returned work put at the tail
queue_push_front_at_back(queue, n) == Append(queue, n)

queue_push_front(queue, n) == <<n>> \o queue

\* the queue after the head was removed (the caller takes Head(queue))
queue_pop_front(queue) == Tail(queue)

(***************************************************************************)
(* Height bitmap                                                           *)
(***************************************************************************)
\* HEIGHT_BITMAP_CAPACITY (1024 * 1024 in the program), scaled down: the
\* bitmap tracks heights 0 .. HEIGHT_BITMAP_CAPACITY - 1
HEIGHT_BITMAP_CAPACITY == MaxHeight

bitmap_set(bitmap, height) ==
  IF height >= HEIGHT_BITMAP_CAPACITY THEN bitmap ELSE bitmap \cup {height}

\* a clear that leaves the bit set
bitmap_clear_none(bitmap, height) == bitmap

bitmap_clear(bitmap, height) ==
  IF height >= HEIGHT_BITMAP_CAPACITY THEN bitmap ELSE bitmap \ {height}

bitmap_has(bitmap, height) ==
  height < HEIGHT_BITMAP_CAPACITY /\ height \in bitmap

\* the whole bitmap zeroed instead of the batch's bits
bitmap_clear_everything(bitmap, batch) == {}

bitmap_clear_batch(bitmap, batch) ==
  {h \in bitmap : ~(h < HEIGHT_BITMAP_CAPACITY /\ h \in Range(batch.heights))}

(***************************************************************************)
(* Peer table                                                              *)
(***************************************************************************)
\* index of the peer's slot, 0 when the peer is not tracked
find_peer_perf(peers, p) ==
  IF \E i \in DOMAIN peers : peers[i].peer = p
  THEN Min({i \in DOMAIN peers : peers[i].peer = p})
  ELSE 0

TrackedPeers == {mgr_peers[i].peer : i \in DOMAIN mgr_peers}

RECURSIVE compact_peers(_)
compact_peers(peers) ==
  IF peers = <<>> THEN <<>>
  ELSE IF Head(peers).peer = NULL THEN compact_peers(Tail(peers))
       ELSE <<Head(peers)>> \o compact_peers(Tail(peers))

\* elapsed is now - perf->window_start_time
\* the window update that marks the peer whenever it is called
update_peer_window_eager(perf, elapsed) ==
  LET rate == Positive(perf.bytes_this_window)
  IN IF elapsed >= DOWNLOAD_PERF_WINDOW_MS
     THEN [perf EXCEPT !.bytes_per_second = rate,
                       !.has_reported = (perf.has_reported \/ rate > 0),
                       !.bytes_this_window = 0]
     ELSE [perf EXCEPT !.has_reported = TRUE]

update_peer_window(perf, elapsed) ==
  LET rate == Positive(perf.bytes_this_window)
  IN IF elapsed >= DOWNLOAD_PERF_WINDOW_MS
     THEN [perf EXCEPT !.bytes_per_second = rate,
                       !.has_reported = (perf.has_reported \/ rate > 0),
                       !.bytes_this_window = 0]
     ELSE perf

\* the call, the LOG_DEBUG line of the return it took (block_received only),
\* its return value and the callbacks it made (send_getdata's (peer, hash)
\* pairs, disconnect_peer's peers)
Last(op, log, r, sent, dropped) ==
  [op |-> op, log |-> log, ret |-> r, out |-> sent \cup dropped]

(***************************************************************************)
(* download_mgr_create                                                     *)
(***************************************************************************)
MgrInit ==
  /\ mgr_nodes = [n \in NodeIds |-> ZeroBatch]
  /\ mgr_live = {}
  /\ mgr_queue = <<>>
  /\ mgr_peers = <<>>
  /\ mgr_height_bitmap = {}
  /\ mgr_lowest_pending_height = 0
  /\ mgr_highest_queued_height = 0
  /\ next_height = 1
  /\ mgr_last = Last("create", "", 0, {}, {})

mgrState == <<mgr_nodes, mgr_live, mgr_queue, mgr_peers, mgr_height_bitmap,
              mgr_lowest_pending_height, mgr_highest_queued_height>>

(***************************************************************************)
(* download_mgr_add_peer                                                   *)
(***************************************************************************)
download_mgr_add_peer(p) ==
  /\ find_peer_perf(mgr_peers, p) = 0
  /\ Len(mgr_peers) < DOWNLOAD_MAX_PEERS
  /\ mgr_peers' = Append(mgr_peers, NewPeerPerf(p))
  /\ mgr_last' = Last("add_peer", "", 0, {}, {})
  /\ UNCHANGED <<mgr_nodes, mgr_live, mgr_queue, mgr_height_bitmap,
                 mgr_lowest_pending_height, mgr_highest_queued_height,
                 next_height>>

(***************************************************************************)
(* download_mgr_remove_peer                                                *)
(***************************************************************************)
\* a requeue that starts the batch over
return_batch_fresh(batch) ==
  [batch EXCEPT !.assigned_time = 0,
                !.received = [j \in 1..batch.count |-> FALSE],
                !.remaining = batch.count]

\* node->batch.assigned_time = 0: the batch as it goes back to the queue
return_batch(batch) == [batch EXCEPT !.assigned_time = 0]

download_mgr_remove_peer(p) ==
  LET i == find_peer_perf(mgr_peers, p)
      n == mgr_peers[i].batch
  IN /\ i # 0
     /\ IF n # NULL
        THEN /\ mgr_nodes' = [mgr_nodes EXCEPT ![n] = return_batch(@)]
             /\ mgr_queue' = queue_push_front(mgr_queue, n)
        ELSE UNCHANGED <<mgr_nodes, mgr_queue>>
     /\ mgr_peers' = compact_peers([mgr_peers EXCEPT ![i].batch = NULL,
                                                     ![i].peer = NULL])
     /\ mgr_last' = Last("remove_peer", "", 0, {}, {})
     /\ UNCHANGED <<mgr_live, mgr_height_bitmap, mgr_lowest_pending_height,
                    mgr_highest_queued_height, next_height>>

(***************************************************************************)
(* download_mgr_add_work                                                   *)
(***************************************************************************)
RECURSIVE bitmap_set_all(_, _)
bitmap_set_all(bitmap, hs) ==
  IF hs = <<>> THEN bitmap
  ELSE bitmap_set_all(bitmap_set(bitmap, Head(hs)), Tail(hs))

\* a new batch holding the heights hs
new_batch(hs) ==
  [hashes |-> [j \in 1..Len(hs) |-> HashOf(hs[j])],
   heights |-> hs,
   received |-> [j \in 1..Len(hs) |-> FALSE],
   count |-> Len(hs),
   remaining |-> Len(hs),
   assigned_time |-> 0]

\* the while loop of download_mgr_add_work; items are the heights not yet
\* batched; batch_node_create returns NULL when the heap is exhausted
RECURSIVE add_work_loop(_, _)
add_work_loop(st, items) ==
  IF \/ items = <<>>
     \/ Len(st.queue) >= DOWNLOAD_MAX_BATCHES
     \/ Cardinality(st.live) >= MaxNodes
  THEN st
  ELSE LET n == Head(items)
           k == IF Len(items) < DOWNLOAD_BATCH_SIZE THEN Len(items)
                ELSE DOWNLOAD_BATCH_SIZE
           hs == SubSeq(items, 1, k)
       IN add_work_loop(
            [nodes |-> [st.nodes EXCEPT ![n] = new_batch(hs)],
             live |-> st.live \cup {n},
             queue |-> queue_push_back(st.queue, n),
             bitmap |-> bitmap_set_all(st.bitmap, hs),
             lowest |-> IF st.lowest = 0 \/ hs[1] < st.lowest THEN hs[1]
                        ELSE st.lowest,
             highest |-> IF hs[k] > st.highest THEN hs[k] ELSE st.highest,
             added |-> st.added + k],
            SubSeq(items, k + 1, Len(items)))

download_mgr_add_work(count) ==
  LET items == [j \in 1..count |-> next_height + j - 1]
      st0 == [nodes |-> mgr_nodes, live |-> mgr_live, queue |-> mgr_queue,
              bitmap |-> mgr_height_bitmap,
              lowest |-> mgr_lowest_pending_height,
              highest |-> mgr_highest_queued_height, added |-> 0]
      st == IF Len(mgr_queue) >= DOWNLOAD_MAX_BATCHES THEN st0
            ELSE add_work_loop(st0, items)
  IN /\ count > 0
     /\ next_height + count - 1 <= MaxHeight
     /\ mgr_nodes' = st.nodes
     /\ mgr_live' = st.live
     /\ mgr_queue' = st.queue
     /\ mgr_height_bitmap' = st.bitmap
     /\ mgr_lowest_pending_height' = st.lowest
     /\ mgr_highest_queued_height' = st.highest
     /\ next_height' = next_height + st.added
     /\ mgr_last' = Last("add_work", "", st.added, {}, {})
     /\ UNCHANGED mgr_peers

(***************************************************************************)
(* download_mgr_peer_request_work                                          *)
(***************************************************************************)
\* the assignment that also starts the batch over: remaining = count
assign_batch_reset(batch) ==
  [batch EXCEPT !.assigned_time = SomeTime, !.remaining = batch.count]

\* the batch as it is handed to a peer: only assigned_time is written,
\* remaining and received are not reset
assign_batch(batch) == [batch EXCEPT !.assigned_time = SomeTime]

download_mgr_peer_request_work(p) ==
  LET i == find_peer_perf(mgr_peers, p)
      old == mgr_peers[i].batch
  IN /\ i # 0
     /\ IF old # NULL /\ mgr_nodes[old].remaining > 0
        THEN \* peer still has work
             /\ mgr_last' = Last("request_work", "", FALSE, {}, {})
             /\ UNCHANGED <<mgrState, next_height>>
        ELSE LET \* free a completed batch
                 nodes1 == IF old # NULL
                           THEN [mgr_nodes EXCEPT ![old] = ZeroBatch]
                           ELSE mgr_nodes
                 live1 == mgr_live \ {old}
                 bitmap1 == IF old # NULL
                            THEN bitmap_clear_batch(mgr_height_bitmap,
                                                    mgr_nodes[old])
                            ELSE mgr_height_bitmap
                 freed == IF old # NULL THEN "freeing completed batch"
                          ELSE ""
             IN /\ mgr_live' = live1
                /\ mgr_height_bitmap' = bitmap1
                /\ IF mgr_queue = <<>>
                   THEN \* starved
                        /\ mgr_nodes' = nodes1
                        /\ mgr_peers' = [mgr_peers EXCEPT ![i].batch = NULL]
                        /\ mgr_last' =
                             Last("request_work", freed, FALSE, {}, {})
                        /\ UNCHANGED mgr_queue
                   ELSE LET n == Head(mgr_queue)
                        IN /\ mgr_queue' = queue_pop_front(mgr_queue)
                           /\ mgr_nodes' =
                                [nodes1 EXCEPT ![n] = assign_batch(@)]
                           /\ mgr_peers' =
                                [mgr_peers EXCEPT
                                   ![i].batch = n,
                                   ![i].first_work_time =
                                      IF @ = 0 THEN SomeTime ELSE @]
                           /\ mgr_last' =
                                Last("request_work", freed, TRUE,
                                     {<<p, h>> : h \in Range(nodes1[n].hashes)},
                                     {})
                /\ UNCHANGED <<mgr_lowest_pending_height,
                               mgr_highest_queued_height, next_height>>

(***************************************************************************)
(* download_mgr_block_received                                             *)
(***************************************************************************)
\* the comparison inverted: the first index whose hash differs
index_of_mismatch(batch, hash) ==
  IF \E j \in 1..batch.count : batch.hashes[j] # hash
  THEN Min({j \in 1..batch.count : batch.hashes[j] # hash})
  ELSE 0

\* first index of hash in the batch, 0 when it is not there
index_of(batch, hash) ==
  IF \E j \in 1..batch.count : batch.hashes[j] = hash
  THEN Min({j \in 1..batch.count : batch.hashes[j] = hash})
  ELSE 0

\* the bit set without the count
mark_received_uncounted(batch, j) == [batch EXCEPT !.received[j] = TRUE]

\* received[j] = true; if (remaining > 0) remaining--
mark_received(batch, j) ==
  [batch EXCEPT !.received[j] = TRUE,
                !.remaining = IF @ > 0 THEN @ - 1 ELSE @]

\* perf->bytes_this_window += block_size; last_delivery_time = now;
\* update_peer_window(perf, now)
record_delivery(perf, size, elapsed) ==
  update_peer_window(
    [perf EXCEPT !.bytes_this_window = Positive(@ + size)], elapsed)

\* the second loop that skips every peer but the delivering one
other_holders_self(i, hash) ==
  {q \in DOMAIN mgr_peers :
     /\ q = i
     /\ mgr_peers[q].peer # NULL
     /\ mgr_peers[q].batch # NULL
     /\ index_of(mgr_nodes[mgr_peers[q].batch], hash) # 0}

\* slots of the other peers whose batch holds the hash, in table order
other_holders(i, hash) ==
  {q \in DOMAIN mgr_peers :
     /\ q # i
     /\ mgr_peers[q].peer # NULL
     /\ mgr_peers[q].batch # NULL
     /\ index_of(mgr_nodes[mgr_peers[q].batch], hash) # 0}

\* a search that goes on to the batches waiting in the queue
found_node_queued(i, hash) ==
  LET own == mgr_peers[i].batch
      queued == {n \in Range(mgr_queue) : index_of(mgr_nodes[n], hash) # 0}
  IN IF own # NULL /\ index_of(mgr_nodes[own], hash) # 0 THEN own
     ELSE IF other_holders(i, hash) # {}
          THEN mgr_peers[Min(other_holders(i, hash))].batch
          ELSE IF queued # {} THEN Min(queued) ELSE NULL

\* the search that stops after the delivering peer's own batch
found_node_own(i, hash) ==
  LET own == mgr_peers[i].batch
  IN IF own # NULL /\ index_of(mgr_nodes[own], hash) # 0 THEN own ELSE NULL

\* the node in which block_received finds the hash, NULL when in none: the
\* delivering peer's batch first, then the other peers' batches
found_node(i, hash) ==
  LET own == mgr_peers[i].batch
  IN IF own # NULL /\ index_of(mgr_nodes[own], hash) # 0 THEN own
     ELSE IF other_holders(i, hash) # {}
          THEN mgr_peers[Min(other_holders(i, hash))].batch
          ELSE NULL

download_mgr_block_received_unknown_peer(p, hash) ==
  /\ find_peer_perf(mgr_peers, p) = 0
  /\ mgr_last' = Last("block_received", "block from unknown peer", TRUE,
                      {}, {})
  /\ UNCHANGED <<mgrState, next_height>>

download_mgr_block_received(p, hash, size, elapsed) ==
  LET i == find_peer_perf(mgr_peers, p)
      n == found_node(i, hash)
      j == index_of(mgr_nodes[n], hash)
  IN /\ i # 0
     /\ mgr_peers' = [mgr_peers EXCEPT ![i] = record_delivery(@, size, elapsed)]
     /\ IF n = NULL
        THEN \* not in any batch: late delivery or unrequested
             /\ mgr_last' = Last("block_received", "block not in any batch",
                                 TRUE, {}, {})
             /\ UNCHANGED <<mgr_nodes, mgr_height_bitmap>>
        ELSE IF mgr_nodes[n].received[j]
             THEN \* duplicate
                  /\ mgr_last' = Last("block_received", "duplicate block",
                                      FALSE, {}, {})
                  /\ UNCHANGED <<mgr_nodes, mgr_height_bitmap>>
             ELSE /\ mgr_nodes' = [mgr_nodes EXCEPT ![n] = mark_received(@, j)]
                  /\ mgr_height_bitmap' =
                       bitmap_clear(mgr_height_bitmap, mgr_nodes[n].heights[j])
                  /\ mgr_last' =
                       Last("block_received",
                            IF n = mgr_peers[i].batch THEN "block received"
                            ELSE "DRAIN block received", TRUE, {}, {})
     /\ UNCHANGED <<mgr_live, mgr_queue, mgr_lowest_pending_height,
                    mgr_highest_queued_height, next_height>>

(***************************************************************************)
(* download_mgr_check_performance                                          *)
(***************************************************************************)
\* Phase 1: update the window of every peer that has a batch
update_windows(peers, elapsed) ==
  [i \in DOMAIN peers |->
     IF peers[i].peer # NULL /\ peers[i].batch # NULL
     THEN update_peer_window(peers[i], elapsed[i]) ELSE peers[i]]

\* the pool without the has_reported test
in_pool_unreported(peers, nodes, i) ==
  /\ peers[i].peer # NULL
  /\ peers[i].batch # NULL
  /\ nodes[peers[i].batch].remaining # 0

\* Phase 2: the slots in the performance pool
in_pool(peers, nodes, i) ==
  /\ peers[i].peer # NULL
  /\ peers[i].batch # NULL
  /\ nodes[peers[i].batch].remaining # 0
  /\ peers[i].has_reported

RECURSIVE stalled_slots(_, _, _)
\* stalled_peers[]: the pool's slots with bytes_per_second == 0, from slot i on
stalled_slots(peers, nodes, i) ==
  IF i > Len(peers) THEN <<>>
  ELSE IF in_pool(peers, nodes, i) /\ peers[i].bytes_per_second = 0
       THEN <<i>> \o stalled_slots(peers, nodes, i + 1)
       ELSE stalled_slots(peers, nodes, i + 1)

\* a stalled peer is kept when it delivered less than 2 windows ago
\* (since is now - perf->last_delivery_time; last_delivery_time is never 0)
recently_delivered(since) ==
  since < DOWNLOAD_PERF_WINDOW_MS * 2

\* a stalled peer's slot that keeps its pointer to the requeued batch
drop_batch_kept(perf) == perf

\* the stalled peer's slot after its batch went back to the queue
drop_batch(perf) == [perf EXCEPT !.batch = NULL]

\* the minimum test one peer too late
keep_minimum_late(reporters, dropped) ==
  reporters - dropped < DOWNLOAD_MIN_PEERS_TO_KEEP

\* Phase 3 stops dropping when the pool is down to the minimum
keep_minimum(reporters, dropped) ==
  reporters - dropped <= DOWNLOAD_MIN_PEERS_TO_KEEP

RECURSIVE drop_stalled(_, _, _, _)
\* Phase 3: the loop over stalled_peers[]
drop_stalled(st, stalled, reporters, since) ==
  IF stalled = <<>> THEN st
  ELSE IF keep_minimum(reporters, Cardinality(st.dropped))
       THEN st
       ELSE LET i == Head(stalled)
                perf == st.peers[i]
                n == perf.batch
            IN IF recently_delivered(since[i])
               THEN drop_stalled(st, Tail(stalled), reporters, since)
               ELSE drop_stalled(
                      [nodes |-> [st.nodes EXCEPT ![n] = return_batch(@)],
                       queue |-> queue_push_front(st.queue, n),
                       peers |-> [st.peers EXCEPT ![i] = drop_batch(@)],
                       dropped |-> st.dropped \cup {perf.peer}],
                      Tail(stalled), reporters, since)

\* Phases 1 to 3: the batches, queue and peer table the call leaves, and the
\* peers it passed to disconnect_peer
performance_pass(elapsed, since) ==
  LET pass(peers1) ==
        LET reporters == Cardinality({i \in DOMAIN peers1 :
                                        in_pool(peers1, mgr_nodes, i)})
            st0 == [nodes |-> mgr_nodes, queue |-> mgr_queue,
                    peers |-> peers1, dropped |-> {}]
        IN IF reporters <= DOWNLOAD_MIN_PEERS_TO_KEEP THEN st0
           ELSE drop_stalled(st0, stalled_slots(peers1, mgr_nodes, 1),
                             reporters, since)
  IN pass(update_windows(mgr_peers, elapsed))

download_mgr_check_performance(elapsed, since) ==
  LET returns(st) ==
        /\ mgr_nodes' = st.nodes
        /\ mgr_queue' = st.queue
        /\ mgr_peers' = st.peers
        /\ mgr_last' = Last("check_performance", "",
                            Cardinality(st.dropped), {}, st.dropped)
  IN /\ returns(performance_pass(elapsed, since))
     /\ UNCHANGED <<mgr_live, mgr_height_bitmap, mgr_lowest_pending_height,
                    mgr_highest_queued_height, next_height>>

(***************************************************************************)
(* download_mgr_clear_pending                                              *)
(***************************************************************************)
RECURSIVE clear_queue(_, _, _)
\* pops every queued node, clears its heights in the bitmap and frees it
clear_queue(st, queue, cleared) ==
  IF queue = <<>> THEN [st EXCEPT !.cleared = cleared]
  ELSE LET n == Head(queue)
       IN clear_queue(
            [st EXCEPT !.nodes = [st.nodes EXCEPT ![n] = ZeroBatch],
                       !.live = st.live \ {n},
                       !.bitmap = bitmap_clear_batch(st.bitmap, st.nodes[n])],
            queue_pop_front(queue), cleared + st.nodes[n].remaining)

download_mgr_clear_pending ==
  LET st == clear_queue([nodes |-> mgr_nodes, live |-> mgr_live,
                         bitmap |-> mgr_height_bitmap, cleared |-> 0],
                        mgr_queue, 0)
  IN /\ mgr_queue # <<>>
     /\ mgr_nodes' = st.nodes
     /\ mgr_live' = st.live
     /\ mgr_height_bitmap' = st.bitmap
     /\ mgr_queue' = <<>>
     /\ mgr_last' = Last("clear_pending", "", st.cleared, {}, {})
     /\ UNCHANGED <<mgr_peers, mgr_lowest_pending_height,
                    mgr_highest_queued_height, next_height>>

(***************************************************************************)
(* download_mgr_drain_accelerate                                           *)
(***************************************************************************)
StallTimeouts == {0, DOWNLOAD_PERF_WINDOW_MS * 2}
\* now - last_delivery_time as drain_accelerate compares it: less than the
\* stall timeout, or the stall timeout and more
DrainAges == {0, DOWNLOAD_PERF_WINDOW_MS * 2}

RECURSIVE idle_peers_any(_, _)
\* the collection loop without the idle test: every tracked peer
idle_peers_any(peers, nodes) ==
  IF peers = <<>> THEN <<>>
  ELSE LET perf == Head(peers)
           rest == idle_peers_any(Tail(peers), nodes)
       IN IF perf.peer # NULL
          THEN <<perf.peer>> \o rest ELSE rest

RECURSIVE idle_peers(_, _)
\* idle_peers[]: peers with no batch or a completed batch, in table order
idle_peers(peers, nodes) ==
  IF peers = <<>> THEN <<>>
  ELSE LET perf == Head(peers)
           rest == idle_peers(Tail(peers), nodes)
       IN IF perf.peer # NULL
             /\ (perf.batch = NULL \/ nodes[perf.batch].remaining = 0)
          THEN <<perf.peer>> \o rest ELSE rest

RECURSIVE unreceived(_, _)
\* the hashes of the batch whose received flag is false, from index j on
unreceived(batch, j) ==
  IF j > batch.count THEN <<>>
  ELSE IF ~batch.received[j]
       THEN <<batch.hashes[j]>> \o unreceived(batch, j + 1)
       ELSE unreceived(batch, j + 1)

RECURSIVE blocks_to_request(_, _, _, _)
\* blocks_to_request[]: the unreceived blocks of the in-flight batches
blocks_to_request(peers, nodes, stall_timeout_ms, since) ==
  IF peers = <<>> THEN <<>>
  ELSE LET perf == Head(peers)
           rest == blocks_to_request(Tail(peers), nodes, stall_timeout_ms,
                                     Tail(since))
       IN IF \/ perf.peer = NULL
             \/ perf.batch = NULL
             \/ nodes[perf.batch].remaining = 0
             \/ (stall_timeout_ms > 0
                 /\ Head(since) < stall_timeout_ms)
          THEN rest
          ELSE unreceived(nodes[perf.batch], 1) \o rest

\* the (peer, hash) pairs send_getdata is called with: idle peer i gets
\* blocks_per_peer blocks from its staggered offset on, wrapping around
accelerate_requests(idle, blocks) ==
  LET blocks_count == Len(blocks)
      idle_count == Len(idle)
      needed == blocks_count * ACCELERATE_REDUNDANCY
      even == (needed + idle_count - 1) \div idle_count
      blocks_per_peer == IF even > blocks_count THEN blocks_count ELSE even
      start_offset(i) ==
        (((i - 1) * blocks_count) \div idle_count) % blocks_count
  IN {<<idle[i], blocks[((start_offset(i) + k) % blocks_count) + 1]>> :
        i \in 1..idle_count, k \in 0..(blocks_per_peer - 1)}

download_mgr_drain_accelerate(stall_timeout_ms, since) ==
  LET idle == idle_peers(mgr_peers, mgr_nodes)
      all == blocks_to_request(mgr_peers, mgr_nodes, stall_timeout_ms, since)
      cap == DOWNLOAD_BATCH_SIZE * DOWNLOAD_MAX_PEERS
      blocks == IF Len(all) > cap THEN SubSeq(all, 1, cap) ELSE all
  IN /\ IF idle = <<>> \/ blocks = <<>>
        THEN mgr_last' = Last("drain_accelerate", "", 0, {}, {})
        ELSE mgr_last' = Last("drain_accelerate", "", Len(idle),
                              accelerate_requests(idle, blocks), {})
     /\ UNCHANGED <<mgrState, next_height>>

(***************************************************************************)
(* The download manager and its callers                                    *)
(***************************************************************************)
MgrNext ==
  \/ \E p \in PeerIds \ TrackedPeers :
       /\ p = Min(PeerIds \ TrackedPeers)
       /\ download_mgr_add_peer(p)
       /\ UNCHANGED notMgr
  \/ \E p \in PeerIds :
       download_mgr_remove_peer(p) /\ UNCHANGED notMgr
  \/ \E count \in {MaxAdd} :
       download_mgr_add_work(count) /\ UNCHANGED notMgr
  \/ \E p \in PeerIds :
       download_mgr_peer_request_work(p) /\ UNCHANGED notMgr
  \/ \E p \in PeerIds, hash \in Hashes, size \in BlockSizes,
        elapsed \in WindowAges :
       download_mgr_block_received(p, hash, size, elapsed)
       /\ UNCHANGED notMgr
  \/ \E hash \in Hashes :
       download_mgr_block_received_unknown_peer(DOWNLOAD_MAX_PEERS + 1, hash)
       /\ UNCHANGED notMgr
  \/ \E elapsed \in ClockReadings(mgr_peers, WindowAges),
        since \in ClockReadings(mgr_peers, DeliveryAges) :
       download_mgr_check_performance(elapsed, since) /\ UNCHANGED notMgr
  \/ download_mgr_clear_pending /\ UNCHANGED notMgr
  \/ \E t \in StallTimeouts, since \in ClockReadings(mgr_peers, DrainAges) :
       download_mgr_drain_accelerate(t, since) /\ UNCHANGED notMgr

(***************************************************************************)
(* Properties of the download manager                                      *)
(***************************************************************************)
\* the node in the slot of peer p, NULL when p is not tracked or holds none
batch_of(peers, p) ==
  IF find_peer_perf(peers, p) = 0 THEN NULL
  ELSE peers[find_peer_perf(peers, p)].batch

\* a batch some of whose blocks arrived and some did not
partially_received(batch) ==
  /\ batch.remaining > 0
  /\ \E j \in 1..batch.count : batch.received[j]

\* C1: download_mgr_remove_peer puts the batch of the removed peer at the
\* FRONT of the queue with assigned_time = 0 and its received bits and
\* remaining as they were, and a download_mgr_peer_request_work that hands a
\* queued batch to a peer changes neither its received bits nor its remaining.
C1_RequeuePreservesProgress ==
  [][\A p \in TrackedPeers :
       /\ (mgr_last'.op = "remove_peer" /\ batch_of(mgr_peers, p) # NULL
           /\ download_mgr_remove_peer(p)) =>
            LET n == batch_of(mgr_peers, p)
            IN /\ mgr_queue' = <<n>> \o mgr_queue
               /\ mgr_nodes'[n].assigned_time = 0
               /\ mgr_nodes'[n].received = mgr_nodes[n].received
               /\ mgr_nodes'[n].remaining = mgr_nodes[n].remaining
       /\ (mgr_last'.op = "request_work" /\ mgr_last'.ret = TRUE
           /\ download_mgr_peer_request_work(p)) =>
            LET n == Head(mgr_queue)
            IN /\ batch_of(mgr_peers', p) = n
               /\ mgr_nodes'[n].received = mgr_nodes[n].received
               /\ mgr_nodes'[n].remaining = mgr_nodes[n].remaining]_vars

\* C1 witness: a peer holding a partially received batch was just removed
\* while another batch was waiting: the batch is now ahead of it in the queue
C1_Witness ==
  /\ mgr_last.op = "remove_peer"
  /\ Len(mgr_queue) >= 2
  /\ partially_received(mgr_nodes[Head(mgr_queue)])
  /\ mgr_nodes[Head(mgr_queue)].assigned_time = 0

\* C2: no batch is in the slots of two peers, and no batch is in the queue
\* and in a peer's slot at once.
C2_BatchHasOneOwner ==
  /\ \A i, j \in DOMAIN mgr_peers :
       (i # j /\ mgr_peers[i].batch # NULL) =>
         mgr_peers[i].batch # mgr_peers[j].batch
  /\ \A i \in DOMAIN mgr_peers :
       mgr_peers[i].batch # NULL => mgr_peers[i].batch \notin Range(mgr_queue)

\* C2 witness: download_mgr_check_performance just returned a stalled peer's
\* batch to the queue while another peer holds a batch
C2_Witness ==
  /\ mgr_last.op = "check_performance"
  /\ mgr_last.ret > 0
  /\ mgr_queue # <<>>
  /\ \E i \in DOMAIN mgr_peers : mgr_peers[i].batch # NULL

\* the hash is in no batch at all, assigned or queued
in_no_batch(hash) ==
  \A n \in mgr_live : hash \notin Range(mgr_nodes[n].hashes)

\* no batch's received bits or remaining change in the step
batches_untouched ==
  \A n \in NodeIds :
    /\ mgr_nodes'[n].received = mgr_nodes[n].received
    /\ mgr_nodes'[n].remaining = mgr_nodes[n].remaining

\* C10 as stated: download_mgr_block_received for a hash that is in no batch
\* returns false and changes no batch's received bits or remaining.
C10_UnknownHashReturnsFalse ==
  [][\A p \in TrackedPeers, hash \in Hashes, size \in BlockSizes,
        elapsed \in WindowAges :
       (mgr_last'.op = "block_received" /\ in_no_batch(hash)
        /\ download_mgr_block_received(p, hash, size, elapsed)) =>
          (mgr_last'.ret = FALSE /\ batches_untouched)]_vars

\* C10 amended: download_mgr_block_received for a hash that is in no batch
\* returns TRUE (a late or unrequested delivery is accepted) and changes no
\* batch's received bits or remaining.
C10_UnknownHashIgnored ==
  [][\A p \in TrackedPeers, hash \in Hashes, size \in BlockSizes,
        elapsed \in WindowAges :
       (mgr_last'.op = "block_received" /\ in_no_batch(hash)
        /\ download_mgr_block_received(p, hash, size, elapsed)) =>
          (mgr_last'.ret = TRUE /\ batches_untouched)]_vars

\* C10 witness: a tracked peer delivered a block while every batch was
\* assigned and none held its hash; the call logged "block not in any batch"
C10_Witness ==
  /\ mgr_last.op = "block_received"
  /\ mgr_last.log = "block not in any batch"
  /\ mgr_last.ret = TRUE
  /\ mgr_queue = <<>>
  /\ \E i \in DOMAIN mgr_peers : mgr_peers[i].batch # NULL

\* the hash's received bit is set in some live batch, assigned or queued
received_in(nodes, hash) ==
  \E n \in nodes :
    /\ index_of(mgr_nodes[n], hash) # 0
    /\ mgr_nodes[n].received[index_of(mgr_nodes[n], hash)]

\* the batches that are assigned to a tracked peer
assigned_nodes ==
  {mgr_peers[q].batch : q \in {r \in DOMAIN mgr_peers :
      mgr_peers[r].peer # NULL /\ mgr_peers[r].batch # NULL}}

\* C11 as stated: download_mgr_block_received for a hash whose received bit
\* is already set in a batch, delivered by the owning peer or by any other
\* tracked peer, returns false and leaves every batch's remaining unchanged.
C11_DuplicateReturnsFalse ==
  [][\A p \in TrackedPeers, hash \in Hashes, size \in BlockSizes,
        elapsed \in WindowAges :
       (mgr_last'.op = "block_received" /\ received_in(mgr_live, hash)
        /\ download_mgr_block_received(p, hash, size, elapsed)) =>
          (mgr_last'.ret = FALSE /\ batches_untouched)]_vars

\* C11 amended: a delivery of a hash whose received bit is already set
\* leaves every batch's received bits and remaining unchanged; it returns
\* false when the batch holding the hash is assigned to a peer (the
\* delivering peer or another one), and true when that batch waits in the
\* queue, where block_received does not search.
C11_DuplicateOfAssignedReturnsFalse ==
  [][\A p \in TrackedPeers, hash \in Hashes, size \in BlockSizes,
        elapsed \in WindowAges :
       (mgr_last'.op = "block_received" /\ received_in(mgr_live, hash)
        /\ download_mgr_block_received(p, hash, size, elapsed)) =>
          /\ batches_untouched
          /\ mgr_last'.ret = ~received_in(assigned_nodes, hash)]_vars

\* C11 witness: a duplicate was refused while an assigned batch that has
\* received a block still waits for another one
C11_Witness ==
  /\ mgr_last.op = "block_received"
  /\ mgr_last.log = "duplicate block"
  /\ mgr_last.ret = FALSE
  /\ \E n \in assigned_nodes :
       /\ partially_received(mgr_nodes[n])
       /\ mgr_nodes[n].remaining > 0

\* the peer's slot without its batch pointer: its counters and timers
perf_timers(perf) ==
  [perf EXCEPT !.batch = NULL]

\* the peer holds a batch whose blocks were all received
holds_completed(perf) ==
  perf.batch # NULL /\ mgr_nodes[perf.batch].remaining = 0

C13_RemainingNonIncreasing ==
  [][/\ \A n \in mgr_live \cap mgr_live' :
          /\ mgr_nodes'[n].remaining <= mgr_nodes[n].remaining
          /\ mgr_nodes'[n].count = mgr_nodes[n].count
     /\ \A n \in mgr_live' \ mgr_live :
          mgr_nodes'[n].remaining = mgr_nodes'[n].count]_vars

\* C13 witness: a batch that lost a block of its count was handed out again
\* by request_work and still waits for the rest
C13_Witness ==
  /\ mgr_last.op = "request_work"
  /\ mgr_last.ret = TRUE
  /\ \E i \in DOMAIN mgr_peers :
       /\ mgr_peers[i].batch # NULL
       /\ mgr_nodes[mgr_peers[i].batch].remaining > 0
       /\ mgr_nodes[mgr_peers[i].batch].remaining
            < mgr_nodes[mgr_peers[i].batch].count
       /\ mgr_last.out =
            {<<mgr_peers[i].peer, h>> :
               h \in Range(mgr_nodes[mgr_peers[i].batch].hashes)}

\* the tracked peers that the last call did not disconnect
peers_left ==
  {i \in DOMAIN mgr_peers :
     mgr_peers[i].peer # NULL /\ mgr_peers[i].peer \notin mgr_last.out}

\* C14: download_mgr_check_performance never disconnects below
\* DOWNLOAD_MIN_PEERS_TO_KEEP: after a call that disconnected at least one
\* peer, at least DOWNLOAD_MIN_PEERS_TO_KEEP tracked peers are left that the
\* call did not disconnect.
C14_KeepsMinimumPeers ==
  (mgr_last.op = "check_performance" /\ mgr_last.ret >= 1) =>
     Cardinality(peers_left) >= DOWNLOAD_MIN_PEERS_TO_KEEP

\* C14 witness: a call disconnected a stalled peer and stopped at the
\* minimum: exactly DOWNLOAD_MIN_PEERS_TO_KEEP peers are left, and the peer
\* left still holds its batch
C14_Witness ==
  /\ mgr_last.op = "check_performance"
  /\ mgr_last.ret >= 1
  /\ Cardinality(mgr_last.out) = mgr_last.ret
  /\ Cardinality(peers_left) = DOWNLOAD_MIN_PEERS_TO_KEEP
  /\ \A i \in peers_left : mgr_peers[i].batch # NULL

\* what the call's three conditions say of the slot of a disconnected peer,
\* after the call has updated the rolling windows
stalled_reporter(perf) ==
  perf.has_reported /\ perf.bytes_per_second = 0

\* C15 as stated: download_mgr_check_performance disconnects a peer only if
\* the peer has_reported, its bytes_per_second is 0 and its time since the
\* last delivery is greater than 2 windows (whatever the clock reads when
\* the call is made in the current state).
C15_DropsOnlyLongerThanTwoWindows ==
  \A elapsed \in ClockReadings(mgr_peers, WindowAges),
     since \in ClockReadings(mgr_peers, DeliveryAges) :
    LET only(st) ==
          \A i \in DOMAIN mgr_peers :
            mgr_peers[i].peer \in st.dropped =>
              /\ stalled_reporter(st.peers[i])
              /\ since[i] > DOWNLOAD_PERF_WINDOW_MS * 2
    IN only(performance_pass(elapsed, since))

\* C15 amended: download_mgr_check_performance disconnects a peer only if,
\* after the call's update of the rolling windows, the peer has_reported,
\* its bytes_per_second is 0, and its time since the last delivery is at
\* least 2 windows (2 windows exactly included); the peer held a batch with
\* blocks outstanding.
C15_DropsOnlyAfterTwoWindows ==
  \A elapsed \in ClockReadings(mgr_peers, WindowAges),
     since \in ClockReadings(mgr_peers, DeliveryAges) :
    LET only(st) ==
          \A i \in DOMAIN mgr_peers :
            mgr_peers[i].peer \in st.dropped =>
              /\ stalled_reporter(st.peers[i])
              /\ since[i] >= DOWNLOAD_PERF_WINDOW_MS * 2
              /\ mgr_peers[i].batch # NULL
              /\ mgr_nodes[mgr_peers[i].batch].remaining > 0
    IN only(performance_pass(elapsed, since))

\* C15 witness: a call disconnected a peer that has reported and whose rate
\* is 0, and its batch is back at the head of the queue
C15_Witness ==
  /\ mgr_last.op = "check_performance"
  /\ mgr_last.out # {}
  /\ mgr_queue # <<>>
  /\ mgr_nodes[Head(mgr_queue)].assigned_time = 0
  /\ \E i \in DOMAIN mgr_peers :
       /\ mgr_peers[i].peer \in mgr_last.out
       /\ mgr_peers[i].batch = NULL
       /\ stalled_reporter(mgr_peers[i])

\* the batches assigned to tracked peers in the given peer table
held(peers) ==
  {peers[i].batch : i \in {j \in DOMAIN peers : peers[j].batch # NULL}}

\* seq is the last Len(seq) elements of longer
is_suffix(seq, longer) ==
  /\ Len(seq) <= Len(longer)
  /\ SubSeq(longer, Len(longer) - Len(seq) + 1, Len(longer)) = seq

\* C22: request_work assigns the oldest queued batch: a successful
\* request_work hands out the head of the queue; add_work appends its new
\* batches behind the queued ones, in height order; a batch returned by a
\* peer removal or by a stall is put in front of every queued batch; no other
\* call reorders the queue.
C22_OldestQueuedFirst ==
  [][/\ (mgr_last'.op = "request_work" /\ mgr_last'.ret = TRUE) =>
          /\ mgr_queue # <<>>
          /\ mgr_queue' = Tail(mgr_queue)
          /\ held(mgr_peers') \ held(mgr_peers) = {Head(mgr_queue)}
     /\ (mgr_last'.op = "request_work" /\ mgr_last'.ret = FALSE) =>
          mgr_queue' = mgr_queue
     /\ mgr_last'.op = "add_work" =>
          /\ SubSeq(mgr_queue', 1, Len(mgr_queue)) = mgr_queue
          /\ \A j \in (Len(mgr_queue) + 1)..(Len(mgr_queue') - 1) :
               mgr_nodes'[mgr_queue'[j]].heights[1]
                 < mgr_nodes'[mgr_queue'[j + 1]].heights[1]
     /\ mgr_last'.op \in {"remove_peer", "check_performance"} =>
          /\ is_suffix(mgr_queue, mgr_queue')
          /\ Range(SubSeq(mgr_queue', 1, Len(mgr_queue') - Len(mgr_queue)))
               = held(mgr_peers) \ held(mgr_peers')
     /\ mgr_last'.op \in {"block_received", "drain_accelerate", "add_peer"} =>
          mgr_queue' = mgr_queue]_vars

\* C22 witness: request_work handed out a batch that had been returned to the
\* front while an older batch, of lower heights, still waits behind it
C22_Witness ==
  /\ mgr_last.op = "request_work"
  /\ mgr_last.ret = TRUE
  /\ mgr_queue # <<>>
  /\ \E n \in held(mgr_peers) :
       /\ mgr_last.out # {}
       /\ \A pr \in mgr_last.out : pr[2] \in Range(mgr_nodes[n].hashes)
       /\ mgr_nodes[Head(mgr_queue)].heights[1] < mgr_nodes[n].heights[1]

\* the slots of the peers other than p whose batch holds the hash with its
\* received bit still clear
unreceived_holders(p, hash) ==
  {q \in DOMAIN mgr_peers :
     /\ mgr_peers[q].peer # NULL
     /\ mgr_peers[q].peer # p
     /\ mgr_peers[q].batch # NULL
     /\ index_of(mgr_nodes[mgr_peers[q].batch], hash) # 0
     /\ ~mgr_nodes[mgr_peers[q].batch].received[
           index_of(mgr_nodes[mgr_peers[q].batch], hash)]}

\* the delivery is recorded in the batch of slot q and in no other batch,
\* and the call returns true
recorded_for(q, hash) ==
  LET recorded(n, j) ==
        /\ mgr_last'.ret = TRUE
        /\ mgr_nodes'[n].received[j]
        /\ mgr_nodes'[n].remaining = mgr_nodes[n].remaining - 1
        /\ \A m \in NodeIds \ {n} : mgr_nodes'[m] = mgr_nodes[m]
        /\ \A i \in DOMAIN mgr_peers :
             mgr_peers'[i].batch = mgr_peers[i].batch
  IN recorded(mgr_peers[q].batch,
              index_of(mgr_nodes[mgr_peers[q].batch], hash))

\* C23 as stated: the first delivery by any peer P of a hash that belongs to
\* the batch assigned to another peer Q sets the block's received bit in Q's
\* batch, decrements Q's remaining by one, leaves P's batch (and every other
\* batch) unchanged and returns true.
C23_AnyPeerDeliveryRecorded ==
  [][\A hash \in Hashes :
       /\ \A p \in TrackedPeers, size \in BlockSizes, elapsed \in WindowAges :
            (mgr_last'.op = "block_received"
             /\ download_mgr_block_received(p, hash, size, elapsed)) =>
               \A q \in unreceived_holders(p, hash) : recorded_for(q, hash)
       /\ (mgr_last'.op = "block_received"
           /\ download_mgr_block_received_unknown_peer(
                DOWNLOAD_MAX_PEERS + 1, hash)) =>
             \A q \in unreceived_holders(DOWNLOAD_MAX_PEERS + 1, hash) :
               recorded_for(q, hash)]_vars

\* C23 amended: the first delivery by a peer P that the manager tracks of a
\* hash that belongs to the batch assigned to another peer Q sets the block's
\* received bit in Q's batch, decrements Q's remaining by one, leaves every
\* other batch unchanged and returns true; a delivery by a peer the manager
\* does not track returns true and is recorded in no batch.
C23_TrackedPeerDeliveryRecorded ==
  [][\A hash \in Hashes :
       /\ \A p \in TrackedPeers, size \in BlockSizes, elapsed \in WindowAges :
            (mgr_last'.op = "block_received"
             /\ download_mgr_block_received(p, hash, size, elapsed)) =>
               \A q \in unreceived_holders(p, hash) : recorded_for(q, hash)
       /\ (mgr_last'.op = "block_received"
           /\ download_mgr_block_received_unknown_peer(
                DOWNLOAD_MAX_PEERS + 1, hash)) =>
             (mgr_last'.ret = TRUE /\ mgr_nodes' = mgr_nodes)]_vars

\* C23 witness: a peer that holds a batch of its own, none of it received,
\* delivered a block of another peer's batch
C23_Witness ==
  /\ mgr_last.op = "block_received"
  /\ mgr_last.log = "DRAIN block received"
  /\ \E i, q \in DOMAIN mgr_peers :
       /\ i # q
       /\ mgr_peers[i].batch # NULL
       /\ mgr_peers[q].batch # NULL
       /\ mgr_nodes[mgr_peers[i].batch].remaining
            = mgr_nodes[mgr_peers[i].batch].count
       /\ mgr_nodes[mgr_peers[q].batch].remaining
            < mgr_nodes[mgr_peers[q].batch].count

\* the hashes of the batches in flight whose received bit is clear
outstanding_blocks ==
  {mgr_nodes[mgr_peers[i].batch].hashes[j] :
     <<i, j>> \in {ij \in (DOMAIN mgr_peers) \X (1..DOWNLOAD_BATCH_SIZE) :
                     /\ mgr_peers[ij[1]].peer # NULL
                     /\ mgr_peers[ij[1]].batch # NULL
                     /\ ij[2] <= mgr_nodes[mgr_peers[ij[1]].batch].count
                     /\ ~mgr_nodes[mgr_peers[ij[1]].batch].received[ij[2]]}}

\* the tracked peers whose batch still has a block with a clear received bit
busy_peers ==
  {mgr_peers[i].peer :
     i \in {k \in DOMAIN mgr_peers :
              /\ mgr_peers[k].peer # NULL
              /\ mgr_peers[k].batch # NULL
              /\ \E j \in 1..mgr_nodes[mgr_peers[k].batch].count :
                   ~mgr_nodes[mgr_peers[k].batch].received[j]}}

\* C24: drain_accelerate requests only outstanding (unreceived) blocks of
\* in-flight batches, only from tracked peers that have no unreceived block
\* in a batch of their own, and changes no batch's owner, received bits,
\* remaining or queue position.
C24_DrainRequestsIdleOnly ==
  [][mgr_last'.op = "drain_accelerate" =>
       /\ mgrState' = mgrState
       /\ \A req \in mgr_last'.out :
            /\ req[1] \in TrackedPeers
            /\ req[1] \notin busy_peers
            /\ req[2] \in outstanding_blocks]_vars

\* C24 witness: drain_accelerate sent requests while one peer was idle and
\* another still had a partly received batch
C24_Witness ==
  /\ mgr_last.op = "drain_accelerate"
  /\ mgr_last.out # {}
  /\ \E i \in DOMAIN mgr_peers :
       /\ mgr_peers[i].batch # NULL
       /\ mgr_nodes[mgr_peers[i].batch].remaining > 0
       /\ mgr_nodes[mgr_peers[i].batch].remaining
            < mgr_nodes[mgr_peers[i].batch].count

\* the peer's has_reported flag in a peer table
reported(peers, p) == peers[find_peer_perf(peers, p)].has_reported

\* has_reported never returns to false while the peer stays tracked
reported_latches ==
  \A p \in PeerIds :
    (/\ find_peer_perf(mgr_peers, p) # 0
     /\ find_peer_perf(mgr_peers', p) # 0
     /\ reported(mgr_peers, p)) => reported(mgr_peers', p)

\* C25 as stated: after a block_received from the peer with size > 0
\* has_reported is true, and it never returns to false while the peer stays
\* tracked.
C25_ReportedAfterAnyByte ==
  [][/\ reported_latches
     /\ \A p \in TrackedPeers \ {NULL}, hash \in Hashes,
           size \in BlockSizes, elapsed \in WindowAges :
          (size > 0 /\ mgr_last'.op = "block_received"
           /\ download_mgr_block_received(p, hash, size, elapsed)) =>
             reported(mgr_peers', p)]_vars

\* C25 amended: has_reported becomes true when a performance window of the
\* peer closes with bytes delivered in it; a block_received with size > 0
\* sets it only when at least DOWNLOAD_PERF_WINDOW_MS have passed since the
\* window started and otherwise leaves it as it was; it never returns to
\* false while the peer stays tracked.
C25_ReportedWhenWindowCloses ==
  [][/\ reported_latches
     /\ \A i \in DOMAIN mgr_peers, size \in BlockSizes,
           elapsed \in WindowAges :
          size > 0 =>
            record_delivery(mgr_peers[i], size, elapsed).has_reported =
              (mgr_peers[i].has_reported
               \/ elapsed >= DOWNLOAD_PERF_WINDOW_MS)
     /\ \A p \in PeerIds :
          (/\ find_peer_perf(mgr_peers, p) # 0
           /\ find_peer_perf(mgr_peers', p) # 0
           /\ ~reported(mgr_peers, p)
           /\ reported(mgr_peers', p)) =>
             /\ mgr_last'.op \in {"block_received", "check_performance"}
             /\ mgr_peers[find_peer_perf(mgr_peers, p)].bytes_this_window > 0
                \/ mgr_last'.op = "block_received"
             /\ mgr_peers'[find_peer_perf(mgr_peers', p)].bytes_this_window
                  = 0]_vars

\* C25 witness: a tracked peer delivered a block inside an open window and
\* has not reported yet, while another peer has reported
C25_Witness ==
  /\ mgr_last.op = "block_received"
  /\ \E i, q \in DOMAIN mgr_peers :
       /\ mgr_peers[i].peer # NULL
       /\ mgr_peers[i].bytes_this_window > 0
       /\ ~mgr_peers[i].has_reported
       /\ mgr_peers[q].has_reported

\* the height is in a batch, queued or assigned, with its block not received
awaited(h) ==
  \E n \in mgr_live :
    \E j \in 1..mgr_nodes[n].count :
      mgr_nodes[n].heights[j] = h /\ ~mgr_nodes[n].received[j]

\* download_mgr_has_height
download_mgr_has_height(h) == bitmap_has(mgr_height_bitmap, h)

unreceived_count(batch) ==
  Cardinality({j \in 1..batch.count : ~batch.received[j]})

\* C37: for every batch, queued or assigned, remaining equals the number of
\* positions whose received bit is false, after any sequence of calls; so a
\* batch is freed as completed (by request_work) only when all of its blocks
\* have been received.
C37_RemainingCountsUnreceived ==
  /\ [](\A n \in mgr_live :
          mgr_nodes[n].remaining = unreceived_count(mgr_nodes[n]))
  /\ [][mgr_last'.op = "request_work" =>
          \A n \in mgr_live \ mgr_live' :
            \A j \in 1..mgr_nodes[n].count : mgr_nodes[n].received[j]]_vars

\* C37 witness: request_work has just freed a completed batch, while a
\* partly received batch waits in the queue after its peer was removed
C37_Witness ==
  /\ mgr_last.op = "request_work"
  /\ mgr_last.log = "freeing completed batch"
  /\ Cardinality(mgr_live) = 1
  /\ next_height > DOWNLOAD_BATCH_SIZE + 1
  /\ \E n \in mgr_live :
       /\ mgr_nodes[n].remaining = 1
       /\ mgr_nodes[n].count = 2

(***************************************************************************)
(* Download progress: one peer that keeps asking for work and delivers     *)
(* what it is asked for, beside peers that may take work and keep it.      *)
(***************************************************************************)
\* the peer that keeps calling request_work and delivers; the peers added
\* before it are the others, which deliver blocks of the chain, asked for
\* or not, when they like
GoodPeer == DOWNLOAD_MAX_PEERS

RECURSIVE sum_remaining(_, _)
sum_remaining(nodes, ns) ==
  IF ns = <<>> THEN 0
  ELSE nodes[Head(ns)].remaining + sum_remaining(nodes, Tail(ns))

\* download_mgr_pending_blocks: remaining of the queued batches plus
\* remaining of the batches assigned to peers
download_mgr_pending_blocks ==
  sum_remaining(mgr_nodes, mgr_queue)
    + sum_remaining(mgr_nodes,
                    SelectSeq([i \in DOMAIN mgr_peers |-> mgr_peers[i].batch],
                              LAMBDA n : n # NULL))

\* hashes the good peer was sent getdata for and has not delivered: the
\* blocks outstanding in the batch it holds
asked_of_good_peer ==
  LET i == find_peer_perf(mgr_peers, GoodPeer)
      n == IF i = 0 THEN NULL ELSE mgr_peers[i].batch
  IN IF n = NULL THEN {}
     ELSE {mgr_nodes[n].hashes[j] :
             j \in {k \in 1..mgr_nodes[n].count : ~mgr_nodes[n].received[k]}}

GoodRequests == download_mgr_peer_request_work(GoodPeer) /\ UNCHANGED notMgr

GoodDelivers ==
  \E hash \in asked_of_good_peer, elapsed \in WindowAges :
    download_mgr_block_received(GoodPeer, hash, 1, elapsed)
    /\ UNCHANGED notMgr

\* readings of the clock at which the good peer has just delivered
GoodReadings(peers, ages) ==
  {f \in ClockReadings(peers, ages) :
     \A i \in DOMAIN peers : peers[i].peer = GoodPeer => f[i] = 0}

MgrFairNext ==
  \/ \E p \in PeerIds \ TrackedPeers :
       /\ p = Min(PeerIds \ TrackedPeers)
       /\ download_mgr_add_peer(p)
       /\ UNCHANGED notMgr
  \/ \E p \in PeerIds \ {GoodPeer} :
       download_mgr_remove_peer(p) /\ UNCHANGED notMgr
  \/ \E count \in {MaxAdd} :
       download_mgr_add_work(count) /\ UNCHANGED notMgr
  \/ \E p \in PeerIds \ {GoodPeer} :
       download_mgr_peer_request_work(p) /\ UNCHANGED notMgr
  \/ \E p \in PeerIds \ {GoodPeer}, hash \in Hashes \ {UnknownHash},
        elapsed \in WindowAges :
       download_mgr_block_received(p, hash, 1, elapsed) /\ UNCHANGED notMgr
  \/ \E elapsed \in ClockReadings(mgr_peers, WindowAges),
        since \in GoodReadings(mgr_peers, DeliveryAges) :
       download_mgr_check_performance(elapsed, since) /\ UNCHANGED notMgr
  \/ GoodRequests
  \/ GoodDelivers

\* the good peer is tracked
good_tracked == find_peer_perf(mgr_peers, GoodPeer) # 0

\* the block at height h waits in a batch that a peer other than the good
\* peer holds
held_by_other(h) ==
  \E i \in DOMAIN mgr_peers :
    /\ mgr_peers[i].peer # GoodPeer
    /\ mgr_peers[i].batch # NULL
    /\ \E j \in 1..mgr_nodes[mgr_peers[i].batch].count :
         /\ mgr_nodes[mgr_peers[i].batch].heights[j] = h
         /\ ~mgr_nodes[mgr_peers[i].batch].received[j]

\* C36, as stated: if a tracked peer keeps calling request_work whenever it
\* is idle and delivers every block it was asked for, every block added by
\* add_work is eventually marked received and pending_blocks eventually
\* reaches 0, whatever the other peers do.
C36_DownloadProgress ==
  /\ \A h \in Heights : (good_tracked /\ awaited(h)) ~> ~awaited(h)
  /\ good_tracked ~> (download_mgr_pending_blocks = 0)

\* C36 amended: with such a peer, the manager reaches again and again a
\* state in which every block not yet received waits in a batch held by
\* another peer: a block that waits in the queue or in the good peer's batch
\* is eventually marked received unless a batch holding it is assigned to
\* another peer first, and pending_blocks reaches 0 unless another peer holds
\* a batch with blocks outstanding.
C36_ProgressUnlessHeldByOther ==
  good_tracked ~> (\A h \in Heights : awaited(h) => held_by_other(h))

\* C36 witness: every height was handed to add_work and received, the good
\* peer delivered the last block, and the peer added before it is gone
C36_Witness ==
  /\ TrackedPeers = {GoodPeer}
  /\ next_height = MaxHeight + 1
  /\ download_mgr_pending_blocks = 0
  /\ mgr_live # {}
  /\ mgr_last.op = "block_received"
  /\ mgr_last.log = "block received"

\* the hash is of a block not yet received in a batch that waits in the queue
queued_unreceived(hash) ==
  \E n \in Range(mgr_queue) :
    \E j \in 1..mgr_nodes[n].count :
      mgr_nodes[n].hashes[j] = hash /\ ~mgr_nodes[n].received[j]

\* the step is a block_received of the hash by a tracked peer
delivers(hash) ==
  /\ mgr_last'.op = "block_received"
  /\ \E p \in PeerIds, elapsed \in WindowAges :
       download_mgr_block_received(p, hash, 1, elapsed)

\* C38, as stated: a block delivered while its batch waits in the queue is
\* recorded: block_received sets its received bit in the queued batch and
\* decrements remaining.
C38_QueuedDeliveryRecorded ==
  [][\A hash \in Hashes :
       (queued_unreceived(hash) /\ delivers(hash)) =>
          \E n \in Range(mgr_queue) :
            LET j == index_of(mgr_nodes[n], hash)
            IN /\ j # 0
               /\ mgr_nodes'[n].received[j]
               /\ mgr_nodes'[n].remaining = mgr_nodes[n].remaining - 1]_vars

\* C38 amended: a block delivered while its batch waits in the queue is not
\* recorded: block_received returns true as for a late delivery and leaves
\* every batch, the queue and the height bitmap as they were, so the block
\* still counts as outstanding; when the batch is handed out again the call
\* requests all of its blocks.
C38_QueuedDeliveryNotRecorded ==
  [][/\ \A hash \in Hashes :
          (queued_unreceived(hash) /\ delivers(hash)) =>
             /\ mgr_last'.ret = TRUE
             /\ mgr_last'.log = "block not in any batch"
             /\ UNCHANGED <<mgr_nodes, mgr_queue, mgr_live, mgr_height_bitmap>>
             /\ queued_unreceived(hash)'
     /\ (mgr_last'.op = "request_work" /\ mgr_last'.ret = TRUE) =>
          \E n \in Range(mgr_queue) \ Range(mgr_queue') :
            {r[2] : r \in mgr_last'.out} = Range(mgr_nodes[n].hashes)]_vars

\* C38 witness: every height is in a batch, every queued batch has all of
\* its blocks outstanding, and a block that is in no assigned batch, hence
\* in a queued one, has just been delivered
C38_Witness ==
  /\ mgr_last.op = "block_received"
  /\ mgr_last.log = "block not in any batch"
  /\ mgr_queue # <<>>
  /\ \A h \in Heights : \E n \in mgr_live : h \in Range(mgr_nodes[n].heights)
  /\ \A n \in Range(mgr_queue) : mgr_nodes[n].remaining = mgr_nodes[n].count
  /\ \E i \in DOMAIN mgr_peers : mgr_peers[i].bytes_this_window > 0

(***************************************************************************)
(* Block availability tracker (src/src/storage/block_tracker.c)            *)
(***************************************************************************)
BtHeights == 0..MaxBtHeight

height_to_byte(height) == height \div 8

RECURSIVE grow_capacity(_, _)
\* while (new_capacity / 8 < needed_bytes) new_capacity *= GROWTH_FACTOR
grow_capacity(new_capacity, needed_bytes) ==
  IF new_capacity \div 8 < needed_bytes
  THEN grow_capacity(new_capacity * BLOCK_TRACKER_GROWTH_FACTOR, needed_bytes)
  ELSE new_capacity

\* ensure_capacity: the capacity that holds the height, which is the current
\* one when the bitmap already has the byte
ensure_capacity(map_capacity, height) ==
  LET needed_bytes == height_to_byte(height) + 1
  IN IF needed_bytes <= map_capacity \div 8 THEN map_capacity
     ELSE grow_capacity(map_capacity, needed_bytes)

BtLast(op, arg, r) == [op |-> op, arg |-> arg, ret |-> r]

\* block_tracker_create(validated_tip)
block_tracker_create(validated_tip) ==
  /\ bt_validated_tip = validated_tip
  /\ bt_highest_stored = validated_tip
  /\ bt_map_capacity = BLOCK_TRACKER_INITIAL_CAPACITY
  /\ bt_availability_map = {}
  /\ bt_last = BtLast("create", validated_tip, "ECHO_OK")

block_tracker_reset(validated_tip) ==
  /\ bt_validated_tip' = validated_tip
  /\ bt_highest_stored' = validated_tip
  /\ bt_availability_map' = {}
  /\ bt_last' = BtLast("reset", validated_tip, "ECHO_OK")
  /\ UNCHANGED bt_map_capacity

\* calloc_ok: whether the calloc of a grown bitmap succeeds
block_tracker_mark_available(height, calloc_ok) ==
  IF height <= bt_validated_tip
  THEN /\ bt_last' = BtLast("mark_available", height, "ECHO_OK")
       /\ UNCHANGED <<bt_validated_tip, bt_highest_stored,
                      bt_availability_map, bt_map_capacity>>
  ELSE IF ensure_capacity(bt_map_capacity, height) # bt_map_capacity
          /\ ~calloc_ok
       THEN /\ bt_last' = BtLast("mark_available", height, "ECHO_ERR_MEMORY")
            /\ UNCHANGED <<bt_validated_tip, bt_highest_stored,
                           bt_availability_map, bt_map_capacity>>
       ELSE /\ bt_map_capacity' = ensure_capacity(bt_map_capacity, height)
            /\ bt_availability_map' = bt_availability_map \cup {height}
            /\ bt_highest_stored' = IF height > bt_highest_stored THEN height
                                    ELSE bt_highest_stored
            /\ bt_last' = BtLast("mark_available", height, "ECHO_OK")
            /\ UNCHANGED bt_validated_tip

block_tracker_has_block(height) ==
  IF height <= bt_validated_tip THEN TRUE
  ELSE IF height >= bt_map_capacity THEN FALSE
       ELSE height \in bt_availability_map

\* the value of a find that returns false (range_out is not written)
None == [start_height |-> 0, end_height |-> 0, count |-> 0]

RECURSIVE walk_forward_short(_)
\* the walk that stops one height before highest_stored
walk_forward_short(end) ==
  IF end + 1 < bt_highest_stored /\ block_tracker_has_block(end + 1)
  THEN walk_forward_short(end + 1) ELSE end

RECURSIVE walk_forward(_)
\* while (end < highest_stored && has_block(end + 1)) end++
walk_forward(end) ==
  IF end < bt_highest_stored /\ block_tracker_has_block(end + 1)
  THEN walk_forward(end + 1) ELSE end

\* the search that starts at the validated tip itself
find_consecutive_range_from_tip ==
  LET start == bt_validated_tip
      range(end) == [start_height |-> start, end_height |-> end,
                     count |-> end - start + 1]
  IN IF start > bt_highest_stored THEN None
     ELSE IF ~block_tracker_has_block(start) THEN None
          ELSE range(walk_forward(start))

\* the range written to range_out, None when the call returns false
block_tracker_find_consecutive_range ==
  LET start == bt_validated_tip + 1
      range(end) == [start_height |-> start, end_height |-> end,
                     count |-> end - start + 1]
  IN IF start > bt_highest_stored THEN None
     ELSE IF ~block_tracker_has_block(start) THEN None
          ELSE range(walk_forward(start))

\* a loop that stops one height short of the new tip
clear_validated_short(map, map_capacity, old_tip, new_tip) ==
  {h \in map : ~(old_tip + 1 <= h /\ h < new_tip /\ h < map_capacity)}

\* the loop of block_tracker_mark_validated: the bits of the heights
\* old_tip + 1 .. new_tip below the capacity are cleared
clear_validated(map, map_capacity, old_tip, new_tip) ==
  {h \in map : ~(old_tip + 1 <= h /\ h <= new_tip /\ h < map_capacity)}

\* height < UINT32_MAX, that is height + 1 < 2^32, computed in 16-bit halves
below_uint32_max(height) == (height + 1) \div 65536 < 65536

\* the height written to height_out and the value returned: the first height
\* above the tip, up to highest_stored, that has_block does not have; the
\* height after highest_stored when there is none
block_tracker_find_blocking_block ==
  LET start == bt_validated_tip + 1
      missing == {h \in start..bt_highest_stored :
                    ~block_tracker_has_block(h)}
  IN IF start > bt_highest_stored THEN [ret |-> TRUE, height |-> start]
     ELSE IF missing # {} THEN [ret |-> TRUE, height |-> Min(missing)]
     ELSE IF below_uint32_max(bt_highest_stored)
          THEN [ret |-> TRUE, height |-> bt_highest_stored + 1]
          ELSE [ret |-> FALSE, height |-> 0]

\* mark_validated without the test against the current tip
mark_validated_backwards(new_validated_tip) ==
  /\ bt_availability_map' =
       clear_validated(bt_availability_map, bt_map_capacity,
                       bt_validated_tip, new_validated_tip)
  /\ bt_validated_tip' = new_validated_tip
  /\ bt_last' = BtLast("mark_validated", new_validated_tip, "validated")
  /\ UNCHANGED <<bt_highest_stored, bt_map_capacity>>

block_tracker_mark_validated(new_validated_tip) ==
  IF new_validated_tip <= bt_validated_tip
  THEN /\ bt_last' = BtLast("mark_validated", new_validated_tip, "unchanged")
       /\ UNCHANGED <<bt_validated_tip, bt_highest_stored,
                      bt_availability_map, bt_map_capacity>>
  ELSE /\ bt_availability_map' =
            clear_validated(bt_availability_map, bt_map_capacity,
                            bt_validated_tip, new_validated_tip)
       /\ bt_validated_tip' = new_validated_tip
       /\ bt_last' = BtLast("mark_validated", new_validated_tip, "validated")
       /\ UNCHANGED <<bt_highest_stored, bt_map_capacity>>

BtNext ==
  \/ \E tip \in BtHeights :
       block_tracker_reset(tip) /\ UNCHANGED notBt
  \/ \E h \in BtHeights, calloc_ok \in BOOLEAN :
       block_tracker_mark_available(h, calloc_ok) /\ UNCHANGED notBt
  \/ \E tip \in BtHeights :
       block_tracker_mark_validated(tip) /\ UNCHANGED notBt

(***************************************************************************)
(* Properties of the block tracker                                         *)
(***************************************************************************)
\* C6: at all times validated_tip <= highest_stored, after any sequence of
\* create, mark_available, mark_validated and reset
C6_TipWithinStored == bt_validated_tip <= bt_highest_stored

\* C7: every height whose bit is set in the availability bitmap is strictly
\* greater than validated_tip
C7_SetBitsAboveTip ==
  \A h \in bt_availability_map : h > bt_validated_tip

\* mark_validated has advanced the tip past stored heights and heights
\* above the new tip are still marked
C7_Witness ==
  /\ bt_last.op = "mark_validated"
  /\ bt_last.ret = "validated"
  /\ bt_validated_tip + 1 >= BLOCK_TRACKER_INITIAL_CAPACITY
  /\ bt_validated_tip + 1 \in bt_availability_map
  /\ bt_highest_stored > bt_validated_tip

\* C18 as stated: immediately after mark_validated(t), for any t,
\* find_consecutive_range returns None or a range that starts at t + 1.
C18_RangeStartsAfterArgument ==
  bt_last.op = "mark_validated" =>
    \/ block_tracker_find_consecutive_range = None
    \/ block_tracker_find_consecutive_range.start_height = bt_last.arg + 1

\* C18 amended: immediately after mark_validated(t), find_consecutive_range
\* returns None or a range that starts at validated_tip + 1, which is t + 1
\* when t was at or above the tip and a higher height when t was below the
\* tip (the call then changed nothing).
C18_RangeStartsAfterTip ==
  bt_last.op = "mark_validated" =>
    \/ block_tracker_find_consecutive_range = None
    \/ /\ block_tracker_find_consecutive_range.start_height
            = bt_validated_tip + 1
       /\ bt_validated_tip >= bt_last.arg
       /\ (bt_last.ret = "validated" => bt_validated_tip = bt_last.arg)

\* C18 witness: mark_validated(t) moved the tip to t and the blocks right
\* above t are there: the range found starts at t + 1 and has 2 blocks or more
C18_Witness ==
  /\ bt_last.op = "mark_validated"
  /\ bt_last.ret = "validated"
  /\ block_tracker_find_consecutive_range # None
  /\ block_tracker_find_consecutive_range.start_height = bt_last.arg + 1
  /\ block_tracker_find_consecutive_range.count >= 2

\* C19: validated_tip is non-decreasing outside reset: mark_validated(new_tip)
\* with new_tip <= validated_tip changes nothing of the tracker, and no step
\* other than reset lowers validated_tip.
C19_TipNonDecreasing ==
  [][/\ bt_last'.op # "reset" => bt_validated_tip' >= bt_validated_tip
     /\ (bt_last'.op = "mark_validated"
         /\ bt_last'.arg <= bt_validated_tip) =>
           UNCHANGED <<bt_validated_tip, bt_highest_stored,
                       bt_availability_map, bt_map_capacity>>]_vars

\* C19 witness: mark_validated was called with a height below the tip while
\* blocks above the tip were available, and was ignored
C19_Witness ==
  /\ bt_last.op = "mark_validated"
  /\ bt_last.ret = "unchanged"
  /\ bt_last.arg < bt_validated_tip
  /\ bt_availability_map # {}

\* C20: find_consecutive_range returns the maximal gap-free run of available
\* heights that starts at validated_tip + 1 (start = validated_tip + 1, every
\* height up to end available, end + 1 not available, count = end - start + 1)
\* and returns None exactly when validated_tip + 1 is not available.
C20_MaximalRun ==
  LET maximal(r) ==
        /\ r = None <=> ~block_tracker_has_block(bt_validated_tip + 1)
        /\ r # None =>
             /\ r.start_height = bt_validated_tip + 1
             /\ r.end_height >= r.start_height
             /\ \A h \in r.start_height..r.end_height :
                  block_tracker_has_block(h)
             /\ ~block_tracker_has_block(r.end_height + 1)
             /\ r.count = r.end_height - r.start_height + 1
  IN maximal(block_tracker_find_consecutive_range)

\* C20 witness: the run found has 2 blocks or more and stops at a gap below
\* further available heights
C20_Witness ==
  /\ block_tracker_find_consecutive_range # None
  /\ block_tracker_find_consecutive_range.count >= 2
  /\ block_tracker_find_consecutive_range.end_height + 1 < bt_highest_stored
  /\ block_tracker_has_block(bt_highest_stored)

\* C21: find_blocking_block returns the smallest height above validated_tip
\* that has_block does not have, and returns false (no blocking block) when
\* there is no gap among the heights validated_tip + 1 .. highest_stored.
C21_FirstMissingOrNone ==
  LET gaps == {h \in (bt_validated_tip + 1)..bt_highest_stored :
                 ~block_tracker_has_block(h)}
      first_missing(r) ==
        /\ r.ret = (gaps # {})
        /\ r.ret => r.height = Min(gaps)
  IN first_missing(block_tracker_find_blocking_block)

(***************************************************************************)
(* IBD chunk validator (src/src/node/ibd_validator.c)                      *)
(*                                                                         *)
(* The UTXO set, the UTXO database and the block checks are code of the    *)
(* repository that the validator calls; they are modelled by what the      *)
(* validator relies on: a set of entries keyed by outpoint, a store with   *)
(* one transaction at a time, and a verdict per block.                     *)
(***************************************************************************)
\* COINBASE_MATURITY
COINBASE_MATURITY == 100
\* coinbase_subsidy(height) at the heights of the chunk
Subsidy == 50
\* the chunk validated is ChunkStart .. ChunkStart + ChunkLen - 1
ChunkStart == 101
ChunkLen == 2
\* IBD_BATCH_INITIAL_CAPACITY (65536 in the program), scaled down
IBD_BATCH_INITIAL_CAPACITY == 1
\* outpoints the spent array holds before validation stops being called
MaxSpent == 3
\* the value of a non-coinbase output present before the chunk
CoinValue == 5

start_height == ChunkStart
end_height == ChunkStart + ChunkLen - 1
ChunkHeights == start_height..end_height

Outpoint(txid, vout) == [txid |-> txid, vout |-> vout]

\* utxo_entry_t, without the script
UtxoEntry(outpoint, value, height, is_coinbase) ==
  [outpoint |-> outpoint, value |-> value, height |-> height,
   is_coinbase |-> is_coinbase]

\* txid of the coinbase transaction and of the spending transaction of the
\* block at a height
CoinbaseTxid(height) == 2 * height
SpendTxid(height) == 2 * height + 1

\* entries confirmed before the chunk: a coin of height 1, and the coinbase
\* of height 2, which matures at height 2 + COINBASE_MATURITY
OldCoin == UtxoEntry(Outpoint(SpendTxid(1), 0), CoinValue, 1, FALSE)
OldCoinbase == UtxoEntry(Outpoint(CoinbaseTxid(2), 0), Subsidy, 2, TRUE)
\* an entry of the chainstate's in-memory set that the store does not have
RecentCoin == UtxoEntry(Outpoint(SpendTxid(3), 0), CoinValue, 3, FALSE)
\* an outpoint no set and no store has
MissingOutpoint == Outpoint(SpendTxid(4), 0)

InitialStore == {OldCoin, OldCoinbase}

---------------------------------------------------------------------------
\* utxo_set_t: a set of entries with at most one entry per outpoint
utxo_set_lookup(set, outpoint) == {e \in set : e.outpoint = outpoint}

utxo_set_insert(set, entry) ==
  IF utxo_set_lookup(set, entry.outpoint) # {}
  THEN [result |-> "ECHO_ERR_EXISTS", set |-> set]
  ELSE [result |-> "ECHO_OK", set |-> set \cup {entry}]

utxo_set_remove(set, outpoint) == set \ utxo_set_lookup(set, outpoint)

Outpoints(set) == {e.outpoint : e \in set}

---------------------------------------------------------------------------
\* ibd_utxo_batch_create
ibd_utxo_batch_create ==
  [created_utxos |-> {},
   spent_outpoints |-> <<>>,
   spent_capacity |-> IBD_BATCH_INITIAL_CAPACITY,
   created_then_spent_count |-> 0]

\* ibd_utxo_batch_add_created
ibd_utxo_batch_add_created(batch, entry) ==
  LET ins == utxo_set_insert(batch.created_utxos, entry)
  IN [result |-> ins.result,
      batch |-> [batch EXCEPT !.created_utxos = ins.set]]

\* a batch that records every spend, also of an entry it created
add_spent_always(batch, outpoint, realloc_ok) ==
  IF Len(batch.spent_outpoints) >= batch.spent_capacity /\ ~realloc_ok
  THEN [result |-> "ECHO_ERR_MEMORY", batch |-> batch]
  ELSE [result |-> "ECHO_OK",
        batch |-> [batch EXCEPT
          !.spent_outpoints = Append(@, outpoint),
          !.spent_capacity =
             IF Len(batch.spent_outpoints) >= @ THEN @ * 2 ELSE @]]

\* a batch that cancels a created entry without counting the cancellation
add_spent_uncounted(batch, outpoint, realloc_ok) ==
  IF utxo_set_lookup(batch.created_utxos, outpoint) # {}
  THEN [result |-> "ECHO_OK",
        batch |-> [batch EXCEPT
          !.created_utxos = utxo_set_remove(@, outpoint)]]
  ELSE IF Len(batch.spent_outpoints) >= batch.spent_capacity /\ ~realloc_ok
       THEN [result |-> "ECHO_ERR_MEMORY", batch |-> batch]
       ELSE [result |-> "ECHO_OK",
             batch |-> [batch EXCEPT
               !.spent_outpoints = Append(@, outpoint),
               !.spent_capacity =
                  IF Len(batch.spent_outpoints) >= @ THEN @ * 2 ELSE @]]

\* ibd_utxo_batch_add_spent; realloc_ok: whether realloc of the spent array
\* succeeds when the array is full
ibd_utxo_batch_add_spent(batch, outpoint, realloc_ok) ==
  IF utxo_set_lookup(batch.created_utxos, outpoint) # {}
  THEN [result |-> "ECHO_OK",
        batch |-> [batch EXCEPT
          !.created_utxos = utxo_set_remove(@, outpoint),
          !.created_then_spent_count = @ + 1]]
  ELSE IF Len(batch.spent_outpoints) >= batch.spent_capacity /\ ~realloc_ok
       THEN [result |-> "ECHO_ERR_MEMORY", batch |-> batch]
       ELSE [result |-> "ECHO_OK",
             batch |-> [batch EXCEPT
               !.spent_outpoints = Append(@, outpoint),
               !.spent_capacity =
                  IF Len(batch.spent_outpoints) >= @ THEN @ * 2 ELSE @]]

\* ibd_utxo_batch_lookup
ibd_utxo_batch_lookup(batch, outpoint) ==
  utxo_set_lookup(batch.created_utxos, outpoint)

---------------------------------------------------------------------------
\* The UTXO store: rows is what the connection reads and writes, saved is
\* the contents before the open transaction began (equal to rows when no
\* transaction is open), validated_tip is the validated height it persists.
NewStore(rows, tip) ==
  [rows |-> rows, in_txn |-> FALSE, saved |-> rows, validated_tip |-> tip]

db_begin(db) == [db EXCEPT !.in_txn = TRUE, !.saved = db.rows]

db_commit(db) == [db EXCEPT !.in_txn = FALSE, !.saved = db.rows]

db_rollback(db) == [db EXCEPT !.in_txn = FALSE, !.rows = db.saved]

\* a commit that fails either has aborted the transaction or has left it
\* open, with its deletes and inserts still pending
db_commit_failed(db, aborted) == IF aborted THEN db_rollback(db) ELSE db

utxo_db_lookup(db, outpoint) == utxo_set_lookup(db.rows, outpoint)

utxo_db_insert(db, entry) ==
  LET ins == utxo_set_insert(db.rows, entry)
  IN [result |-> ins.result, db |-> [db EXCEPT !.rows = ins.set]]

utxo_db_delete(db, outpoint) ==
  [result |-> IF utxo_db_lookup(db, outpoint) = {} THEN "ECHO_ERR_NOT_FOUND"
              ELSE "ECHO_OK",
   db |-> [db EXCEPT !.rows = utxo_set_remove(@, outpoint)]]

---------------------------------------------------------------------------
\* tx_output_t: its value and whether the script starts with OP_RETURN (0x6a)
TxOutput(value, op_return) == [value |-> value, op_return |-> op_return]

\* tx_t with the txid tx_compute_txid gives it
Tx(txid, inputs, outputs) ==
  [txid |-> txid, inputs |-> inputs, outputs |-> outputs]

\* what node_load_block_at_height and the block checks say about the block
\* stored at a height, and its transactions
Block(load_ok, pow_ok, merkle_ok, structure_ok, txs) ==
  [load_ok |-> load_ok, pow_ok |-> pow_ok, merkle_ok |-> merkle_ok,
   structure_ok |-> structure_ok, txs |-> txs]

\* which allocation fails during a call, if any: the txid array of
\* validate_next, utxo_entry_create, or the realloc of the spent array
AllocFailures == {"none", "txids", "entry", "realloc"}

\* ibd_validator_create
ibd_validator_create ==
  [current_height |-> start_height,
   last_error |-> "IBD_VALID_OK",
   error_height |-> 0,
   batch |-> ibd_utxo_batch_create]

\* lookup_utxo_for_spend: the batch, then the store, then the chainstate
lookup_utxo_for_spend(batch, outpoint) ==
  IF ibd_utxo_batch_lookup(batch, outpoint) # {}
  THEN ibd_utxo_batch_lookup(batch, outpoint)
  ELSE IF utxo_db_lookup(utxo_db, outpoint) # {}
       THEN utxo_db_lookup(utxo_db, outpoint)
       ELSE utxo_set_lookup(chainstate_utxo_set, outpoint)

RECURSIVE spend_inputs_late(_, _, _, _, _)
\* an input loop that asks for one block more than COINBASE_MATURITY
spend_inputs_late(st, inputs, i, height, mem) ==
  LET missing == [st EXCEPT !.result = "IBD_VALID_ERR_UTXO_MISSING"]
      marked(utxo, spent) ==
        IF spent.result # "ECHO_OK"
        THEN [st EXCEPT !.result = "IBD_VALID_ERR_MEMORY",
                        !.input_sum = @ + utxo.value]
        ELSE spend_inputs_late([result |-> "IBD_VALID_OK",
                                batch |-> spent.batch,
                                input_sum |-> st.input_sum + utxo.value],
                               inputs, i + 1, height, mem)
      spend(utxo) ==
        IF utxo.is_coinbase /\ height <= utxo.height + COINBASE_MATURITY
        THEN missing
        ELSE marked(utxo, ibd_utxo_batch_add_spent(st.batch, inputs[i],
                                                   mem # "realloc"))
      looked_up(found) ==
        IF found = {} THEN missing ELSE spend(CHOOSE e \in found : TRUE)
  IN IF i > Len(inputs) THEN st
     ELSE looked_up(lookup_utxo_for_spend(st.batch, inputs[i]))

RECURSIVE spend_inputs(_, _, _, _, _)
\* the input loop of validate_tx_utxos, from input i on
spend_inputs(st, inputs, i, height, mem) ==
  LET missing == [st EXCEPT !.result = "IBD_VALID_ERR_UTXO_MISSING"]
      marked(utxo, spent) ==
        IF spent.result # "ECHO_OK"
        THEN [st EXCEPT !.result = "IBD_VALID_ERR_MEMORY",
                        !.input_sum = @ + utxo.value]
        ELSE spend_inputs([result |-> "IBD_VALID_OK",
                           batch |-> spent.batch,
                           input_sum |-> st.input_sum + utxo.value],
                          inputs, i + 1, height, mem)
      spend(utxo) ==
        IF utxo.is_coinbase /\ height < utxo.height + COINBASE_MATURITY
        THEN missing
        ELSE marked(utxo, ibd_utxo_batch_add_spent(st.batch, inputs[i],
                                                   mem # "realloc"))
      looked_up(found) ==
        IF found = {} THEN missing ELSE spend(CHOOSE e \in found : TRUE)
  IN IF i > Len(inputs) THEN st
     ELSE looked_up(lookup_utxo_for_spend(st.batch, inputs[i]))

RECURSIVE create_outputs(_, _, _, _, _, _)
\* the output loop of validate_tx_utxos, from output i on; output i of the
\* transaction has vout i - 1
create_outputs(st, tx, i, height, is_coinbase, mem) ==
  LET added(r) ==
        create_outputs([result |-> "IBD_VALID_OK",
                        batch |-> r.batch,
                        output_sum |-> st.output_sum + tx.outputs[i].value],
                       tx, i + 1, height, is_coinbase, mem)
  IN IF i > Len(tx.outputs) THEN st
     ELSE IF tx.outputs[i].op_return
          THEN create_outputs(st, tx, i + 1, height, is_coinbase, mem)
          ELSE IF mem = "entry"
               THEN [st EXCEPT !.result = "IBD_VALID_ERR_MEMORY",
                               !.output_sum = @ + tx.outputs[i].value]
               ELSE added(ibd_utxo_batch_add_created(
                            st.batch,
                            UtxoEntry(Outpoint(tx.txid, i - 1),
                                      tx.outputs[i].value, height,
                                      is_coinbase)))

\* validate_tx_utxos: the sums are handed back only with IBD_VALID_OK
validate_tx_utxos(batch, tx, height, is_coinbase, mem) ==
  LET failed(result, b) == [result |-> result, batch |-> b,
                            input_sum |-> 0, output_sum |-> 0]
      created(ins, outs) ==
        IF outs.result # "IBD_VALID_OK"
        THEN failed(outs.result, outs.batch)
        ELSE [result |-> "IBD_VALID_OK", batch |-> outs.batch,
              input_sum |-> ins.input_sum, output_sum |-> outs.output_sum]
      spent(ins) ==
        IF ins.result # "IBD_VALID_OK"
        THEN failed(ins.result, ins.batch)
        ELSE created(ins,
                     create_outputs([result |-> "IBD_VALID_OK",
                                     batch |-> ins.batch, output_sum |-> 0],
                                    tx, 1, height, is_coinbase, mem))
      start == [result |-> "IBD_VALID_OK", batch |-> batch, input_sum |-> 0]
  IN IF is_coinbase THEN spent(start)
     ELSE spent(spend_inputs(start, tx.inputs, 1, height, mem))

RECURSIVE validate_txs(_, _, _, _, _)
\* the transaction loop of ibd_validator_validate_next, from transaction i
\* on; transaction 1 is the coinbase
validate_txs(st, txs, i, height, mem) ==
  LET is_coinbase == (i = 1)
      checked(tx) ==
        IF tx.result # "IBD_VALID_OK"
        THEN [st EXCEPT !.result = tx.result, !.batch = tx.batch]
        ELSE IF ~is_coinbase /\ tx.output_sum > tx.input_sum
             THEN [st EXCEPT !.result = "IBD_VALID_ERR_VALUE",
                             !.batch = tx.batch]
             ELSE validate_txs(
                    [result |-> "IBD_VALID_OK",
                     batch |-> tx.batch,
                     total_fees |-> st.total_fees +
                        (IF is_coinbase THEN 0
                         ELSE tx.input_sum - tx.output_sum)],
                    txs, i + 1, height, mem)
  IN IF i > Len(txs) THEN st
     ELSE checked(validate_tx_utxos(st.batch, txs[i], height, is_coinbase,
                                    mem))

RECURSIVE coinbase_output(_, _)
\* the sum of the values of all outputs of the coinbase, from output i on
coinbase_output(outputs, i) ==
  IF i > Len(outputs) THEN 0
  ELSE outputs[i].value + coinbase_output(outputs, i + 1)

\* an end of validate_next that moves to the next height whatever the result
finish_block_always(v, result) ==
  [v EXCEPT !.current_height = @ + 1,
            !.last_error = IF result = "IBD_VALID_OK" THEN @ ELSE result]

\* the end of ibd_validator_validate_next: current_height++ on IBD_VALID_OK,
\* last_error = result otherwise
finish_block(v, result) ==
  IF result = "IBD_VALID_OK"
  THEN [v EXCEPT !.current_height = @ + 1]
  ELSE [v EXCEPT !.last_error = result]

\* ibd_validator_validate_next on validator v: the validator it leaves and
\* the result it returns
validate_next(v, mem) ==
  LET height == v.current_height
      block == node_blocks[height]
      fail(err) == [validator |-> [v EXCEPT !.last_error = err,
                                            !.error_height = height],
                    result |-> err]
      finished(batch, result) ==
        [validator |->
           finish_block([v EXCEPT !.batch = batch,
                                  !.error_height =
                                     IF result = "IBD_VALID_OK" THEN @
                                     ELSE height],
                        result),
         result |-> result]
      validated(txs) ==
        IF txs.result = "IBD_VALID_OK" /\ Len(block.txs) > 0
           /\ coinbase_output(block.txs[1].outputs, 1)
                > Subsidy + txs.total_fees
        THEN finished(txs.batch, "IBD_VALID_ERR_COINBASE")
        ELSE finished(txs.batch, txs.result)
  IN IF v.current_height > end_height
     THEN [validator |-> v, result |-> "IBD_VALID_OK"]
     ELSE IF ~block.load_ok THEN fail("IBD_VALID_ERR_LOAD")
     ELSE IF ~block.pow_ok THEN fail("IBD_VALID_ERR_POW")
     ELSE IF ~block.merkle_ok THEN fail("IBD_VALID_ERR_MERKLE")
     ELSE IF ~block.structure_ok THEN fail("IBD_VALID_ERR_STRUCTURE")
     ELSE IF mem = "txids" THEN fail("IBD_VALID_ERR_MEMORY")
     ELSE validated(validate_txs([result |-> "IBD_VALID_OK",
                                  batch |-> v.batch, total_fees |-> 0],
                                 block.txs, 1, height, mem))

\* one call of validate_next together with the record of the heights that
\* were validated: a height is recorded when the call that processed it
\* returned IBD_VALID_OK
next_step(st, mem) ==
  LET returned(r) ==
        [validator |-> r.validator,
         result |-> r.result,
         log |-> IF st.validator.current_height <= end_height
                    /\ r.result = "IBD_VALID_OK"
                 THEN Append(st.log, st.validator.current_height)
                 ELSE st.log]
  IN returned(validate_next(st.validator, mem))

RECURSIVE chunk_loop(_, _)
\* the loop of ibd_validator_validate_chunk
chunk_loop(st, mem) ==
  LET stepped(n) ==
        IF n.result # "IBD_VALID_OK" THEN n ELSE chunk_loop(n, mem)
  IN IF st.validator.current_height > end_height
     THEN [st EXCEPT !.result = "IBD_VALID_OK"]
     ELSE stepped(next_step(st, mem))

IbdLast(op, arg, r) == [op |-> op, arg |-> arg, ret |-> r]

\* the validator and the record of validated heights after a call returned
ibd_returned(op, mem, n) ==
  /\ validator' = n.validator
  /\ validated_log' = n.log
  /\ ibd_last' = IbdLast(op, mem, n.result)

ibd_validator_validate_next(mem) ==
  /\ Len(validator.batch.spent_outpoints) < MaxSpent
  /\ ibd_returned("validate_next", mem,
                  next_step([validator |-> validator, log |-> validated_log,
                             result |-> "IBD_VALID_OK"], mem))
  /\ UNCHANGED <<utxo_db, node_blocks, chainstate_utxo_set>>

ibd_validator_validate_chunk(mem) ==
  /\ Len(validator.batch.spent_outpoints) < MaxSpent
  /\ ibd_returned("validate_chunk", mem,
                  chunk_loop([validator |-> validator, log |-> validated_log,
                              result |-> "IBD_VALID_OK"], mem))
  /\ UNCHANGED <<utxo_db, node_blocks, chainstate_utxo_set>>

---------------------------------------------------------------------------
\* the result of a store operation that failed
StoreErr == "StoreErr"

RECURSIVE delete_spent(_, _, _, _)
\* the delete loop of ibd_validator_flush over spent_outpoints[i .. n];
\* ECHO_ERR_NOT_FOUND is not a failure
delete_spent(db, spent, i, n) ==
  IF i > n THEN db
  ELSE delete_spent(utxo_db_delete(db, spent[i]).db, spent, i + 1, n)

\* flush_insert_callback over a set of created entries; ECHO_ERR_EXISTS is
\* not a failure and leaves the stored entry
insert_created(db, entries) ==
  [db EXCEPT !.rows =
     db.rows \cup {e \in entries : utxo_db_lookup(db, e.outpoint) = {}}]

FlushFailure(op, at, done, aborted) ==
  [op |-> op, at |-> at, done |-> done, aborted |-> aborted]

\* where the store fails during a flush of the batch, if anywhere: db_begin,
\* the delete of spent_outpoints[at], an insert after the entries of done
\* have been inserted, or db_commit
FlushFailures(batch) ==
  {FlushFailure("none", 0, {}, FALSE), FlushFailure("begin", 0, {}, FALSE)}
    \cup {FlushFailure("delete", k, {}, FALSE) :
            k \in 1..Len(batch.spent_outpoints)}
    \cup {FlushFailure("insert", 0, done, FALSE) :
            done \in (SUBSET batch.created_utxos) \ {batch.created_utxos}}
    \cup {FlushFailure("commit", 0, {}, aborted) : aborted \in BOOLEAN}

\* ibd_validator_flush.  db_begin fails while a transaction is open.
ibd_validator_flush(fail) ==
  LET batch == validator.batch
      begun == db_begin(utxo_db)
      deleted(n) == delete_spent(begun, batch.spent_outpoints, 1, n)
      inserted(entries) ==
        insert_created(deleted(Len(batch.spent_outpoints)), entries)
      out ==
        IF utxo_db.in_txn \/ fail.op = "begin"
        THEN [db |-> utxo_db, ret |-> StoreErr]
        ELSE IF fail.op = "delete"
        THEN [db |-> db_rollback(deleted(fail.at - 1)), ret |-> StoreErr]
        ELSE IF fail.op = "insert"
        THEN [db |-> db_rollback(inserted(fail.done)), ret |-> StoreErr]
        ELSE IF fail.op = "commit"
        THEN [db |-> db_commit_failed(inserted(batch.created_utxos),
                                      fail.aborted),
              ret |-> StoreErr]
        ELSE [db |-> db_commit(inserted(batch.created_utxos)),
              ret |-> "ECHO_OK"]
  IN /\ utxo_db' = out.db
     /\ ibd_last' = IbdLast("flush", fail, out.ret)
     /\ UNCHANGED <<validator, node_blocks, chainstate_utxo_set,
                    validated_log>>

---------------------------------------------------------------------------
\* direct calls of the batch interface on the validator's batch
MaxCancelled == 2

add_created(entry) ==
  LET r == ibd_utxo_batch_add_created(validator.batch, entry)
  IN /\ validator' = [validator EXCEPT !.batch = r.batch]
     /\ ibd_last' = IbdLast("add_created", entry, r.result)
     /\ UNCHANGED <<utxo_db, node_blocks, chainstate_utxo_set,
                    validated_log>>

add_spent(outpoint, realloc_ok) ==
  LET r == ibd_utxo_batch_add_spent(validator.batch, outpoint, realloc_ok)
  IN /\ Len(validator.batch.spent_outpoints) < MaxSpent
     /\ validator.batch.created_then_spent_count < MaxCancelled
     /\ validator' = [validator EXCEPT !.batch = r.batch]
     /\ ibd_last' = IbdLast("add_spent", outpoint, r.result)
     /\ UNCHANGED <<utxo_db, node_blocks, chainstate_utxo_set,
                    validated_log>>

\* entries and outpoints handed to the batch interface: two outpoints, one
\* of them with two different entries
BatchEntries ==
  {UtxoEntry(Outpoint(SpendTxid(start_height), 0), CoinValue,
             start_height, FALSE),
   UtxoEntry(Outpoint(SpendTxid(start_height), 0), CoinValue + 1,
             start_height, FALSE),
   UtxoEntry(Outpoint(CoinbaseTxid(start_height), 0), Subsidy,
             start_height, TRUE)}

BatchNext ==
  \/ \E entry \in BatchEntries : add_created(entry) /\ UNCHANGED notIbd
  \/ \E outpoint \in Outpoints(BatchEntries), realloc_ok \in BOOLEAN :
       add_spent(outpoint, realloc_ok) /\ UNCHANGED notIbd

---------------------------------------------------------------------------
\* the blocks a chain can have at a height: a coinbase alone, paying the
\* subsidy, too much, or with an OP_RETURN output; a block that fails a
\* check; a coinbase and one transaction that spends one outpoint
SpendTargets(height) ==
  {OldCoin.outpoint, OldCoinbase.outpoint, RecentCoin.outpoint,
   MissingOutpoint, Outpoint(SpendTxid(height - 1), 0),
   Outpoint(CoinbaseTxid(height), 0)}

Coinbase(height, value, extra) ==
  Tx(CoinbaseTxid(height), <<>>, <<TxOutput(value, FALSE)>> \o extra)

Spend(height, outpoint, value, extra) ==
  Tx(SpendTxid(height), <<outpoint>>, <<TxOutput(value, FALSE)>> \o extra)

\* the outcomes of loading the block, of the proof-of-work check, of the
\* merkle root check and of the structure check when one of them fails
FailedChecks ==
  {<<FALSE, TRUE, TRUE, TRUE>>, <<TRUE, FALSE, TRUE, TRUE>>,
   <<TRUE, TRUE, FALSE, TRUE>>, <<TRUE, TRUE, TRUE, FALSE>>}

BlockChoices(height) ==
  {Block(TRUE, TRUE, TRUE, TRUE, <<Coinbase(height, v, <<>>)>>) :
     v \in {Subsidy, Subsidy + 1}}
  \cup {Block(TRUE, TRUE, TRUE, TRUE,
              <<Coinbase(height, Subsidy, <<TxOutput(0, TRUE)>>)>>)}
  \cup {Block(f[1], f[2], f[3], f[4], <<Coinbase(height, Subsidy, <<>>)>>) :
          f \in FailedChecks}
  \cup {Block(TRUE, TRUE, TRUE, TRUE,
              <<Coinbase(height, Subsidy, <<>>),
                Spend(height, o, v, <<>>)>>) :
          o \in SpendTargets(height), v \in {CoinValue, CoinValue + 1}}
  \cup {Block(TRUE, TRUE, TRUE, TRUE,
              <<Coinbase(height, Subsidy, <<>>),
                Spend(height, OldCoin.outpoint, CoinValue,
                      <<TxOutput(1, TRUE)>>)>>)}

GoodChain ==
  [h \in ChunkHeights |->
     Block(TRUE, TRUE, TRUE, TRUE, <<Coinbase(h, Subsidy, <<>>)>>)]

Chains ==
  {chain \in [ChunkHeights -> UNION {BlockChoices(h) : h \in ChunkHeights}] :
     \A h \in ChunkHeights : chain[h] \in BlockChoices(h)}

\* after ibd_validator_create for the chunk, on a store that holds the
\* entries confirmed before the chunk and the tip of the chunk before
IbdInit(blocks) ==
  /\ validator = ibd_validator_create
  /\ utxo_db = NewStore(InitialStore, start_height - 1)
  /\ node_blocks = blocks
  /\ chainstate_utxo_set = {RecentCoin}
  /\ validated_log = <<>>
  /\ ibd_last = IbdLast("create", NULL, "IBD_VALID_OK")

IbdNext ==
  \/ \E mem \in AllocFailures :
       ibd_validator_validate_next(mem) /\ UNCHANGED notIbd
  \/ \E mem \in AllocFailures :
       ibd_validator_validate_chunk(mem) /\ UNCHANGED notIbd
  \/ \E fail \in FlushFailures(validator.batch) :
       ibd_validator_flush(fail) /\ UNCHANGED notIbd

(***************************************************************************)
(* Properties of the UTXO batch and of the chunk validator                 *)
(***************************************************************************)
\* outpoints the batch has both in created and in spent
overlap(batch) ==
  Outpoints(batch.created_utxos) \cap Range(batch.spent_outpoints)

\* C8, as stated: after any sequence of add_created and add_spent calls, no
\* outpoint is in both created and spent
C8_CreatedSpentDisjoint == overlap(validator.batch) = {}

\* C8, amended: add_spent never brings an outpoint into both sets, and
\* add_spent of an outpoint in created removes it from created and appends
\* nothing to spent; an outpoint comes to be in both only by add_created of
\* an outpoint that spent already holds
C8_OverlapOnlyByCreateAfterSpend ==
  [][/\ ibd_last'.op = "add_spent" =>
          overlap(validator'.batch) \subseteq overlap(validator.batch)
     /\ (/\ ibd_last'.op = "add_spent"
         /\ ibd_last'.arg \in Outpoints(validator.batch.created_utxos)) =>
          /\ ibd_last'.ret = "ECHO_OK"
          /\ ibd_last'.arg \notin Outpoints(validator'.batch.created_utxos)
          /\ validator'.batch.spent_outpoints =
               validator.batch.spent_outpoints
     /\ \A o \in overlap(validator'.batch) \ overlap(validator.batch) :
          /\ ibd_last'.op = "add_created"
          /\ ibd_last'.arg.outpoint = o
          /\ o \in Range(validator.batch.spent_outpoints)]_vars

\* add_spent has cancelled an entry of created while other outpoints are
\* recorded as created and as spent
C8_Witness ==
  /\ ibd_last.op = "add_spent"
  /\ ibd_last.ret = "ECHO_OK"
  /\ validator.batch.created_then_spent_count > 0
  /\ ibd_last.arg \notin Outpoints(validator.batch.created_utxos)
  /\ ibd_last.arg \notin Range(validator.batch.spent_outpoints)
  /\ validator.batch.created_utxos # {}
  /\ validator.batch.spent_outpoints # <<>>

\* C26 as stated: add_spent(o) with o in created removes o from created,
\* appends nothing to spent and increases the cancelled count by one;
\* add_spent(o) with o not in created leaves created unchanged and appends o
\* to spent.
C26_CancelOrAppend ==
  [][ibd_last'.op = "add_spent" =>
       IF ibd_last'.arg \in Outpoints(validator.batch.created_utxos)
       THEN /\ validator'.batch.created_utxos =
                 {e \in validator.batch.created_utxos :
                    e.outpoint # ibd_last'.arg}
            /\ validator'.batch.spent_outpoints =
                 validator.batch.spent_outpoints
            /\ validator'.batch.created_then_spent_count =
                 validator.batch.created_then_spent_count + 1
       ELSE /\ validator'.batch.created_utxos =
                 validator.batch.created_utxos
            /\ validator'.batch.spent_outpoints =
                 Append(validator.batch.spent_outpoints, ibd_last'.arg)]_vars

\* C26 amended: add_spent(o) with o in created removes o from created,
\* appends nothing to spent, increases the cancelled count by one and
\* returns ECHO_OK; add_spent(o) with o not in created leaves created and
\* the cancelled count unchanged and, when it returns ECHO_OK, has appended
\* o to spent; it returns ECHO_ERR_MEMORY and appends nothing when the spent
\* array is full and cannot be grown.
C26_CancelOrAppendUnlessNoMemory ==
  [][ibd_last'.op = "add_spent" =>
       IF ibd_last'.arg \in Outpoints(validator.batch.created_utxos)
       THEN /\ ibd_last'.ret = "ECHO_OK"
            /\ validator'.batch.created_utxos =
                 {e \in validator.batch.created_utxos :
                    e.outpoint # ibd_last'.arg}
            /\ validator'.batch.spent_outpoints =
                 validator.batch.spent_outpoints
            /\ validator'.batch.created_then_spent_count =
                 validator.batch.created_then_spent_count + 1
       ELSE /\ validator'.batch.created_utxos =
                 validator.batch.created_utxos
            /\ validator'.batch.created_then_spent_count =
                 validator.batch.created_then_spent_count
            /\ IF ibd_last'.ret = "ECHO_OK"
               THEN validator'.batch.spent_outpoints =
                      Append(validator.batch.spent_outpoints, ibd_last'.arg)
               ELSE /\ ibd_last'.ret = "ECHO_ERR_MEMORY"
                    /\ Len(validator.batch.spent_outpoints)
                         >= validator.batch.spent_capacity
                    /\ validator'.batch = validator.batch]_vars

\* C26 witness: the batch after add_created(X), add_spent(X): X is not in
\* created, spent is empty and one cancellation is counted
C26_Witness ==
  /\ ibd_last.op = "add_spent"
  /\ ibd_last.ret = "ECHO_OK"
  /\ ibd_last.arg \notin Outpoints(validator.batch.created_utxos)
  /\ validator.batch.spent_outpoints = <<>>
  /\ validator.batch.created_then_spent_count = 1

\* the entry the second transaction of the block at the validator's height
\* is about to spend, when the block passes its checks and has such a
\* transaction: looked up as validate_tx_utxos looks it up, after the
\* coinbase of the block has been processed
spent_by_next ==
  LET height == validator.current_height
      looked_up(block) ==
        IF block.load_ok /\ block.pow_ok /\ block.merkle_ok
           /\ block.structure_ok /\ Len(block.txs) = 2
        THEN lookup_utxo_for_spend(
               validate_tx_utxos(validator.batch, block.txs[1], height,
                                 TRUE, "none").batch,
               block.txs[2].inputs[1])
        ELSE {}
  IN IF height > end_height THEN {} ELSE looked_up(node_blocks[height])

\* the result of validating, at a height, one input that spends the
\* coinbase output of height utxo_h held in the chunk's created set
spend_created_coinbase(utxo_h, height) ==
  spend_inputs(
    [result |-> "IBD_VALID_OK",
     batch |-> [validator.batch EXCEPT
        !.created_utxos =
           utxo_set_insert(@, UtxoEntry(Outpoint(CoinbaseTxid(utxo_h), 0),
                                        Subsidy, utxo_h, TRUE)).set],
     input_sum |-> 0],
    <<Outpoint(CoinbaseTxid(utxo_h), 0)>>, 1, height, "none").result

\* C27: an input spending a coinbase output created at height utxo_h is
\* rejected by validate_next at height current_h (as a missing UTXO) if and
\* only if current_h < utxo_h + 100, and accepted otherwise, whether the
\* entry is found in the store or in the chunk's created set.
C27_CoinbaseMaturity ==
  [][/\ (/\ ibd_last'.op = "validate_next"
         /\ ibd_last'.arg \in {"none", "realloc"}) =>
          \A utxo \in spent_by_next :
            utxo.is_coinbase =>
              /\ (ibd_last'.ret = "IBD_VALID_ERR_UTXO_MISSING")
                   = (validator.current_height
                        < utxo.height + COINBASE_MATURITY)
              /\ (/\ ibd_last'.arg = "none"
                  /\ validator.current_height
                       >= utxo.height + COINBASE_MATURITY) =>
                   ibd_last'.ret = "IBD_VALID_OK"
     /\ \A height \in ChunkHeights :
          \A utxo_h \in {height - COINBASE_MATURITY - 1,
                         height - COINBASE_MATURITY,
                         height - COINBASE_MATURITY + 1} :
            (utxo_set_lookup(validator.batch.created_utxos,
                             Outpoint(CoinbaseTxid(utxo_h), 0)) = {}) =>
              (spend_created_coinbase(utxo_h, height) = "IBD_VALID_OK")
                = (height >= utxo_h + COINBASE_MATURITY)]_vars

\* C27 witness: validate_next accepted a block whose transaction spends the
\* store's coinbase output of height 2 at height 2 + COINBASE_MATURITY, after
\* the chunk's first block was validated
C27_Witness ==
  /\ ibd_last.op = "validate_next"
  /\ ibd_last.ret = "IBD_VALID_OK"
  /\ validator.current_height = OldCoinbase.height + COINBASE_MATURITY + 1
  /\ OldCoinbase.outpoint \in Range(validator.batch.spent_outpoints)

\* C28: a block passes validate_next only if every non-coinbase transaction
\* has a total output value, counting every output, of at most its total
\* input value, and the coinbase's total output value is at most the subsidy
\* plus the fees, the fees being the sum over the non-coinbase transactions
\* of total input value minus total output value.
C28_ValueConservation ==
  [][(/\ ibd_last'.op = "validate_next"
      /\ ibd_last'.ret = "IBD_VALID_OK"
      /\ validator.current_height <= end_height) =>
       LET txs == node_blocks[validator.current_height].txs
           conserved(input_value) ==
             /\ coinbase_output(txs[2].outputs, 1) <= input_value
             /\ coinbase_output(txs[1].outputs, 1)
                  <= Subsidy
                     + (input_value - coinbase_output(txs[2].outputs, 1))
       IN IF Len(txs) = 2
          THEN /\ spent_by_next # {}
               /\ \A utxo \in spent_by_next : conserved(utxo.value)
          ELSE coinbase_output(txs[1].outputs, 1) <= Subsidy]_vars

\* C35: after any sequence of validated blocks in a chunk, the spent list of
\* the batch holds only outpoints that existed in the store at chunk start,
\* each at most once: a spend of an outpoint already spent earlier in the
\* chunk, or of one that never existed, is rejected and not recorded.
C35_SpentFromStoreOnce ==
  LET spent == validator.batch.spent_outpoints
  IN /\ \A i \in 1..Len(spent) : spent[i] \in Outpoints(InitialStore)
     /\ \A i, j \in 1..Len(spent) : spent[i] = spent[j] => i = j

\* C3: flush is atomic on the store: when a step after begin fails (a
\* delete, an insert or the commit) the transaction is rolled back, flush
\* returns the error and the store holds its pre-begin contents
C3_FlushAtomic ==
  [][(/\ ibd_last'.op = "flush"
      /\ ~utxo_db.in_txn
      /\ ibd_last'.arg.op \in {"delete", "insert", "commit"}) =>
       /\ ibd_last'.ret # "ECHO_OK"
       /\ ~utxo_db'.in_txn
       /\ utxo_db'.rows = utxo_db.rows]_vars

\* C4: after flush succeeds for a chunk that validated completely, the
\* persisted validated_tip is end_height, every spent outpoint is absent
\* from the store and every created entry is present
C4_FlushPersistsChunk ==
  (/\ ibd_last.op = "flush"
   /\ ibd_last.ret = "ECHO_OK"
   /\ validator.current_height > end_height
   /\ validator.last_error = "IBD_VALID_OK") =>
    /\ utxo_db.validated_tip = end_height
    /\ \A o \in Range(validator.batch.spent_outpoints) :
         utxo_db_lookup(utxo_db, o) = {}
    /\ validator.batch.created_utxos \subseteq utxo_db.rows

\* C5: blocks are validated in strict height order: the heights validated
\* so far are start_height, start_height + 1, ... in this order, each once,
\* and current_height is one past the last of them
C5_StrictHeightOrder ==
  /\ validator.current_height \in start_height..(end_height + 1)
  /\ Len(validated_log) = validator.current_height - start_height
  /\ \A i \in 1..Len(validated_log) :
       validated_log[i] = start_height + i - 1

\* the chunk has been validated to its end after a call had returned an
\* error
C5_Witness ==
  /\ validator.current_height = end_height + 1
  /\ validator.last_error # "IBD_VALID_OK"
  /\ validated_log # <<>>

\* C9: once validate_next or validate_chunk has returned an error, nothing
\* recorded for the chunk reaches the store
C9_NothingFlushedAfterError ==
  [][validator.last_error # "IBD_VALID_OK" =>
       utxo_db'.rows = utxo_db.rows]_vars

(***************************************************************************)
(* Confirm chaser (chaser_confirm.c): the dispatcher thread handles events *)
(* and the stop method; one worker thread confirms the stored blocks in    *)
(* height order.  A section of code between pthread_mutex_lock and         *)
(* pthread_mutex_unlock of worker_mutex, or between chaser_lock and        *)
(* chaser_unlock, is one step; pthread_cond_wait is the step that leaves   *)
(* the worker waiting, and pthread_cond_signal makes a waiting worker test *)
(* its predicate again.  The base chaser (chaser_init, chaser_is_closed,   *)
(* chaser_is_suspended, chaser_stop) is not among the sources: its closed  *)
(* and suspended flags are modelled from the specification.                *)
(***************************************************************************)
\* heights of the blocks the store can hold
MaxConfirmHeight == 2
\* events the dispatcher delivers in a run
MaxEvents == 3

\* chase_event_t, as far as confirm_handle_event tells the events apart
WorkEvents == {"CHASE_RESUME", "CHASE_START", "CHASE_BUMP", "CHASE_VALID",
               "CHASE_CHECKED"}
RegressEvents == {"CHASE_REGRESSED", "CHASE_DISORGANIZED"}
ChaseEvents ==
  WorkEvents \cup RegressEvents \cup {"CHASE_STOP", "CHASE_ORGANIZED"}

\* confirm_worker.pc is where the worker thread is: "none" not created,
\* "idle" about to test its predicate under worker_mutex, "waiting" in
\* pthread_cond_wait, "begin" at the start of confirm_process_blocks,
\* "check" / "load" / "confirm" / "applied" at the shutdown check, the load,
\* the confirmation and the height update of an iteration, "exited" returned

\* the worker is inside confirm_process_blocks
in_pass(w) == w.pc \in {"begin", "check", "load", "confirm", "applied"}

\* chaser_confirm_create
ConfirmInit(checkpoint) ==
  /\ chaser = [closed |-> FALSE, suspended |-> FALSE,
               confirmed_height |-> 0, top_checkpoint |-> checkpoint,
               work_pending |-> FALSE, worker_shutdown |-> FALSE,
               worker_started |-> FALSE, fork_point |-> 0]
  /\ confirm_worker = [pc |-> "none", confirmed |-> 0]
  /\ stored_height = 0
  /\ cc_obs = [stop_requested |-> FALSE, after_stop |-> FALSE,
               owed |-> "none", midpass |-> FALSE, events |-> 0]
  /\ confirm_api = [pc |-> "idle", op |-> "chaser_confirm_create", arg |-> 0,
                    ret |-> TRUE, emitted |-> <<>>, calls |-> 0]

\* pthread_cond_signal(&chaser->worker_cond): a worker in pthread_cond_wait
\* returns from it and tests its predicate again
cond_signal(w) == IF w.pc = "waiting" THEN [w EXCEPT !.pc = "idle"] ELSE w

\* confirm_start; create_ok: whether pthread_create succeeds
confirm_start(create_ok) ==
  /\ ~chaser.worker_started
  /\ ~chaser.closed
  /\ confirm_worker.pc = "none"
  /\ IF create_ok
     THEN /\ chaser' = [chaser EXCEPT !.worker_started = TRUE]
          /\ confirm_worker' = [confirm_worker EXCEPT !.pc = "idle"]
     ELSE UNCHANGED <<chaser, confirm_worker>>
  /\ UNCHANGED <<stored_height, cc_obs>>

\* another chaser stores and validates the next block
store_block ==
  /\ stored_height < MaxConfirmHeight
  /\ stored_height' = stored_height + 1
  /\ UNCHANGED <<chaser, confirm_worker, cc_obs>>

\* chaser_suspend / chaser_resume of the base chaser
chaser_set_suspended(flag) ==
  /\ ~chaser.closed
  /\ chaser.suspended # flag
  /\ chaser' = [chaser EXCEPT !.suspended = flag]
  /\ UNCHANGED <<confirm_worker, stored_height, cc_obs>>

\* chaser_confirm_reorganize(fork_point), called with
\* fork_point < confirmed_height
chaser_confirm_reorganize(c, fork_point) ==
  IF fork_point > c.confirmed_height THEN c
  ELSE [c EXCEPT !.confirmed_height = fork_point, !.fork_point = fork_point]

\* work_pending = true under worker_mutex
signal_work(c) == [c EXCEPT !.work_pending = TRUE]

\* an event of the five work kinds is owed a pass; it is noted whether it
\* arrived while the worker was inside one
owe(obs, w) ==
  [obs EXCEPT !.owed = "owed",
              !.midpass = @ \/ in_pass(w)]

\* confirm_handle_event(self, event, value)
confirm_handle_event(event, height) ==
  LET seen == [cc_obs EXCEPT !.events = @ + 1,
                             !.stop_requested = @ \/ event = "CHASE_STOP"]
  IN /\ chaser.worker_started
     /\ cc_obs.events < MaxEvents
     /\ IF chaser.closed \/ chaser.suspended
        THEN \* return false / return true before the switch
             /\ cc_obs' = seen
             /\ UNCHANGED <<chaser, confirm_worker>>
        ELSE IF event \in WorkEvents
        THEN /\ chaser' = signal_work(chaser)
             /\ confirm_worker' = cond_signal(confirm_worker)
             /\ cc_obs' = owe(seen, confirm_worker)
        ELSE IF event \in RegressEvents
        THEN /\ chaser' =
                  signal_work(IF height < chaser.confirmed_height
                              THEN chaser_confirm_reorganize(chaser, height)
                              ELSE chaser)
             /\ confirm_worker' = cond_signal(confirm_worker)
             /\ cc_obs' = seen
        ELSE IF event = "CHASE_STOP"
        THEN /\ chaser' = [chaser EXCEPT !.worker_shutdown = TRUE]
             /\ confirm_worker' = cond_signal(confirm_worker)
             /\ cc_obs' = seen
        ELSE /\ cc_obs' = seen
             /\ UNCHANGED <<chaser, confirm_worker>>
     /\ UNCHANGED stored_height

\* confirm_stop, the stop method, as chaser_stop of the base chaser calls it
\* when it closes the chaser
confirm_stop ==
  /\ ~chaser.closed
  /\ chaser' = [chaser EXCEPT !.worker_shutdown = TRUE, !.closed = TRUE]
  /\ confirm_worker' = cond_signal(confirm_worker)
  /\ cc_obs' = [cc_obs EXCEPT !.stop_requested = TRUE]
  /\ UNCHANGED stored_height

\* a pass that forgets the events that arrived while it ran
end_pass_clearing(complete) ==
  /\ confirm_worker' = [confirm_worker EXCEPT !.pc = "idle"]
  /\ chaser' = [chaser EXCEPT !.work_pending = FALSE]
  /\ cc_obs' = IF complete /\ cc_obs.owed = "serving"
               THEN [cc_obs EXCEPT !.owed = "none"] ELSE cc_obs

\* a break out of the loop of confirm_process_blocks: back to the wait of
\* confirm_worker_thread; complete: the pass ended for want of a block or on
\* a failed confirmation, not on the shutdown check
end_pass(complete) ==
  /\ confirm_worker' = [confirm_worker EXCEPT !.pc = "idle"]
  /\ chaser' = chaser
  /\ cc_obs' = IF complete /\ cc_obs.owed = "serving"
               THEN [cc_obs EXCEPT !.owed = "none"] ELSE cc_obs

\* confirm_worker_thread: the wait for work under worker_mutex
worker_wait ==
  /\ confirm_worker.pc = "idle"
  /\ IF ~chaser.work_pending /\ ~chaser.worker_shutdown
     THEN /\ confirm_worker' = [confirm_worker EXCEPT !.pc = "waiting"]
          /\ UNCHANGED <<chaser, cc_obs>>
     ELSE IF chaser.worker_shutdown
     THEN /\ confirm_worker' = [confirm_worker EXCEPT !.pc = "exited"]
          /\ UNCHANGED <<chaser, cc_obs>>
     ELSE /\ chaser' = [chaser EXCEPT !.work_pending = FALSE]
          /\ confirm_worker' = [confirm_worker EXCEPT !.pc = "begin"]
          /\ cc_obs' = IF cc_obs.owed = "owed"
                       THEN [cc_obs EXCEPT !.owed = "serving"] ELSE cc_obs
  /\ UNCHANGED stored_height

\* confirm_process_blocks: confirmed = chaser_confirm_height(chaser)
worker_begin ==
  /\ confirm_worker.pc = "begin"
  /\ confirm_worker' = [pc |-> "check",
                        confirmed |-> chaser.confirmed_height]
  /\ UNCHANGED <<chaser, stored_height, cc_obs>>

\* the shutdown check at the top of the loop
worker_check ==
  /\ confirm_worker.pc = "check"
  /\ IF chaser.worker_shutdown
     THEN end_pass(FALSE)
     ELSE /\ confirm_worker' = [confirm_worker EXCEPT !.pc = "load"]
          /\ cc_obs' = [cc_obs EXCEPT
                          !.after_stop = @ \/ cc_obs.stop_requested]
          /\ UNCHANGED chaser
  /\ UNCHANGED stored_height

\* node_load_block_at_height(node, next_height, &block, &hash)
worker_load ==
  /\ confirm_worker.pc = "load"
  /\ IF confirm_worker.confirmed + 1 <= stored_height
     THEN /\ confirm_worker' = [confirm_worker EXCEPT !.pc = "confirm"]
          /\ UNCHANGED <<chaser, cc_obs>>
     ELSE end_pass(TRUE)
  /\ UNCHANGED stored_height

\* the bypass branch, or confirm_block_internal up to node_apply_block;
\* apply_ok: whether node_apply_block returns ECHO_OK
worker_confirm(apply_ok) ==
  LET next == confirm_worker.confirmed + 1
  IN /\ confirm_worker.pc = "confirm"
     /\ IF next <= chaser.top_checkpoint
        THEN \* chaser_confirm_is_bypass
             /\ chaser' = [chaser EXCEPT !.confirmed_height = next]
             /\ confirm_worker' = [pc |-> "check", confirmed |-> next]
             /\ UNCHANGED cc_obs
        ELSE IF next # chaser.confirmed_height + 1 \/ ~apply_ok
        THEN \* CONFIRM_ERROR_INTERNAL / CONFIRM_ERROR_APPLY
             end_pass(TRUE)
        ELSE /\ confirm_worker' = [confirm_worker EXCEPT !.pc = "applied"]
             /\ UNCHANGED <<chaser, cc_obs>>
     /\ UNCHANGED stored_height

\* confirm_block_internal after node_apply_block: confirmed_height = height
\* under chaser_lock, then chaser_set_position and confirmed = next_height
worker_applied ==
  LET next == confirm_worker.confirmed + 1
  IN /\ confirm_worker.pc = "applied"
     /\ chaser' = [chaser EXCEPT !.confirmed_height = next]
     /\ confirm_worker' = [pc |-> "check", confirmed |-> next]
     /\ UNCHANGED <<stored_height, cc_obs>>

\* the steps of the worker thread
WorkerNext ==
  \/ worker_wait
  \/ worker_begin
  \/ worker_check
  \/ worker_load
  \/ \E apply_ok \in BOOLEAN : worker_confirm(apply_ok)
  \/ worker_applied

ConfirmNext ==
  \/ \E create_ok \in BOOLEAN : confirm_start(create_ok) /\ UNCHANGED notCc
  \/ store_block /\ UNCHANGED notCc
  \/ \E flag \in BOOLEAN : chaser_set_suspended(flag) /\ UNCHANGED notCc
  \/ \E event \in ChaseEvents, height \in 0..MaxConfirmHeight :
       confirm_handle_event(event, height) /\ UNCHANGED notCc
  \/ confirm_stop /\ UNCHANGED notCc
  \/ worker_wait /\ UNCHANGED notCc
  \/ worker_begin /\ UNCHANGED notCc
  \/ worker_check /\ UNCHANGED notCc
  \/ worker_load /\ UNCHANGED notCc
  \/ \E apply_ok \in BOOLEAN : worker_confirm(apply_ok) /\ UNCHANGED notCc
  \/ worker_applied /\ UNCHANGED notCc

(***************************************************************************)
(* Properties of the confirm chaser                                        *)
(***************************************************************************)
\* C16: once a STOP event is delivered to the chaser or its stop method is
\* called, worker_shutdown is set and stays set, the worker thread
\* eventually exits, and it starts no block confirmation after the one in
\* progress (no iteration passes its shutdown check after the request).
C16_StopRequestEndsWorker ==
  /\ [](cc_obs.stop_requested => chaser.worker_shutdown)
  /\ [](~cc_obs.after_stop)
  /\ ((cc_obs.stop_requested /\ chaser.worker_started)
        ~> confirm_worker.pc = "exited")

\* C17 as stated: every START, RESUME, BUMP, VALID or CHECKED event handled
\* while the chaser is open and not suspended is followed by a complete
\* processing pass of the worker that begins after the event was handled.
C17_EventFollowedByPass ==
  (cc_obs.owed = "owed") ~> (cc_obs.owed = "none")

\* C17 amended: such an event is followed by a complete processing pass that
\* begins after the event was handled, also when the event arrives in the
\* middle of a pass, unless worker_shutdown is set before that pass has
\* ended: the worker then exits, or breaks off the pass, at its next test of
\* worker_shutdown.
C17_EventFollowedByPassOrShutdown ==
  (cc_obs.owed = "owed") ~>
     (cc_obs.owed = "none" \/ chaser.worker_shutdown)

\* C17 witness: an event arrived while the worker was in the middle of a
\* pass, and a later pass that confirmed a block has served it; no shutdown
C17_Witness ==
  /\ cc_obs.midpass
  /\ cc_obs.owed = "none"
  /\ cc_obs.events >= 2
  /\ ~chaser.worker_shutdown
  /\ chaser.confirmed_height >= 1
  /\ confirm_worker.pc \in {"idle", "waiting"}

\* C32: a reorganisation handled on the dispatcher thread while the worker is
\* in the middle of a pass is never overwritten by the worker: every increase
\* of confirmed_height is by exactly one from the value it had at the moment
\* of the write, so that after a reorganisation to fork_point the height
\* stays at or below fork_point until the block at fork_point + 1 is
\* confirmed again.
C32_ReorganizeNotOverwritten ==
  [][chaser'.confirmed_height > chaser.confirmed_height =>
       chaser'.confirmed_height = chaser.confirmed_height + 1]_vars

(***************************************************************************)
(* The public calls of the confirm chaser                                  *)
(*                                                                         *)
(* chaser_confirm_block and chaser_confirm_reorganize, called from a       *)
(* thread other than the worker while the worker runs.  confirm_api is     *)
(* that caller: where it is inside chaser_confirm_block, its last call,    *)
(* what the call returned and the events it passed to chaser_notify_height.*)
(***************************************************************************)
\* public calls made in a run
MaxCalls == 2

\* chaser_notify_height(&chaser->base, event, height)
Notified(event, height) == [event |-> event, height |-> height]

ApiLast(op, arg, ret, emitted) ==
  [pc |-> "idle", op |-> op, arg |-> arg, ret |-> ret, emitted |-> emitted,
   calls |-> confirm_api.calls + 1]

\* a confirm_block_internal that does not test the sequence
confirm_result_any_height(height, load_ok, apply_ok) ==
  IF height > stored_height \/ ~load_ok THEN "CONFIRM_ERROR_LOOKUP"
  ELSE IF ~apply_ok THEN "CONFIRM_ERROR_APPLY"
  ELSE "CONFIRM_SUCCESS"

\* confirm_block_internal with no preloaded block: the tests in their order,
\* and what the call returns if none of them fails; load_ok, apply_ok: whether
\* the storage read and node_apply_block succeed
confirm_result(height, load_ok, apply_ok) ==
  IF height # chaser.confirmed_height + 1 THEN "CONFIRM_ERROR_INTERNAL"
  ELSE IF height > stored_height \/ ~load_ok THEN "CONFIRM_ERROR_LOOKUP"
  ELSE IF ~apply_ok THEN "CONFIRM_ERROR_APPLY"
  ELSE "CONFIRM_SUCCESS"

\* chaser_confirm_block(chaser, height, block_hash) up to the return of
\* node_apply_block
chaser_confirm_block(height, load_ok, apply_ok) ==
  LET arg == [height |-> height, load_ok |-> load_ok, apply_ok |-> apply_ok]
      ret == confirm_result(height, load_ok, apply_ok)
  IN /\ confirm_api.pc = "idle"
     /\ confirm_api.calls < MaxCalls
     /\ confirm_api' =
          IF ret = "CONFIRM_SUCCESS"
          THEN [confirm_api EXCEPT !.pc = "applied", !.arg = arg]
          ELSE ApiLast("chaser_confirm_block", arg, ret, <<>>)
     /\ UNCHANGED ccVars

\* chaser_confirm_block after node_apply_block: confirmed_height = height
\* under chaser_lock, the CHASE_ORGANIZED notification, CONFIRM_SUCCESS
chaser_confirm_block_applied ==
  LET height == confirm_api.arg.height
  IN /\ confirm_api.pc = "applied"
     /\ chaser' = [chaser EXCEPT !.confirmed_height = height]
     /\ confirm_api' =
          ApiLast("chaser_confirm_block", confirm_api.arg, "CONFIRM_SUCCESS",
                  <<Notified("CHASE_ORGANIZED", height)>>)
     /\ UNCHANGED <<confirm_worker, stored_height, cc_obs>>

\* a loop that notifies from fork_point + 1 up to h
notify_rolled_back_ascending(h, fork_point) ==
  [i \in 1..(IF h > fork_point THEN h - fork_point ELSE 0) |->
     Notified("CHASE_REORGANIZED", fork_point + i)]

\* for (h = old_height; h > fork_point; h--)
\*   chaser_notify_height(&chaser->base, CHASE_REORGANIZED, h)
RECURSIVE notify_rolled_back(_, _)
notify_rolled_back(h, fork_point) ==
  IF h > fork_point
  THEN <<Notified("CHASE_REORGANIZED", h)>>
         \o notify_rolled_back(h - 1, fork_point)
  ELSE <<>>

\* chaser_confirm_reorganize(chaser, fork_point), a public call: all of it
\* runs under chaser_lock
reorganize_call(fork_point) ==
  /\ confirm_api.pc = "idle"
  /\ confirm_api.calls < MaxCalls
  /\ chaser' = chaser_confirm_reorganize(chaser, fork_point)
  /\ confirm_api' =
       IF fork_point > chaser.confirmed_height
       THEN ApiLast("chaser_confirm_reorganize", fork_point, FALSE, <<>>)
       ELSE ApiLast("chaser_confirm_reorganize", fork_point, TRUE,
                    notify_rolled_back(chaser.confirmed_height, fork_point))
  /\ UNCHANGED <<confirm_worker, stored_height, cc_obs>>

\* the threads of the confirm chaser with the caller of the public functions;
\* the chaser is neither suspended nor closed here
ConfirmApiNext ==
  \/ \E create_ok \in BOOLEAN : confirm_start(create_ok) /\ UNCHANGED notCc
  \/ store_block /\ UNCHANGED notCc
  \/ \E event \in ChaseEvents, height \in 0..MaxConfirmHeight :
       confirm_handle_event(event, height) /\ UNCHANGED notCc
  \/ WorkerNext /\ UNCHANGED notCc
  \/ \E height \in 0..(MaxConfirmHeight + 1), load_ok, apply_ok \in BOOLEAN :
       chaser_confirm_block(height, load_ok, apply_ok) /\ UNCHANGED notCcApi
  \/ chaser_confirm_block_applied /\ UNCHANGED notCcApi
  \/ \E fork_point \in 0..MaxConfirmHeight :
       reorganize_call(fork_point) /\ UNCHANGED notCcApi

\* the step is a return of the public call op
api_returns(op) ==
  /\ confirm_api'.calls = confirm_api.calls + 1
  /\ confirm_api'.op = op

\* C33: chaser_confirm_block succeeds only for the next block in sequence: a
\* call with height # confirmed_height + 1 returns CONFIRM_ERROR_INTERNAL, a
\* failed block load returns CONFIRM_ERROR_LOOKUP and a failed apply returns
\* CONFIRM_ERROR_APPLY, and in each of these cases confirmed_height is
\* unchanged and no ORGANIZED event is emitted.
C33_ConfirmOnlyNextInSequence ==
  [][LET arg == confirm_api'.arg
         ret == confirm_api'.ret
         in_sequence == arg.height = chaser.confirmed_height + 1
         loaded == arg.height <= stored_height /\ arg.load_ok
     IN /\ (api_returns("chaser_confirm_block") /\ confirm_api.pc = "idle") =>
             /\ ~in_sequence => ret = "CONFIRM_ERROR_INTERNAL"
             /\ (in_sequence /\ ~loaded) => ret = "CONFIRM_ERROR_LOOKUP"
             /\ (in_sequence /\ loaded /\ ~arg.apply_ok) =>
                  ret = "CONFIRM_ERROR_APPLY"
             /\ ret # "CONFIRM_SUCCESS"
             /\ chaser'.confirmed_height = chaser.confirmed_height
             /\ confirm_api'.emitted = <<>>
        /\ (confirm_api'.pc = "applied" /\ confirm_api.pc = "idle") =>
             in_sequence /\ loaded /\ arg.apply_ok]_vars

\* C33 witness: each of the three errors was returned after a block had
\* been confirmed; here the failed apply
C33_Witness ==
  /\ confirm_api.op = "chaser_confirm_block"
  /\ confirm_api.ret = "CONFIRM_ERROR_APPLY"
  /\ confirm_api.pc = "idle"
  /\ chaser.confirmed_height >= 1

\* C34: chaser_confirm_reorganize(fork_point) returns false and changes
\* nothing when fork_point > confirmed_height; otherwise it emits exactly one
\* REORGANIZED event for each height from the old confirmed_height down to
\* fork_point + 1, in descending order, sets confirmed_height = fork_point
\* and returns true.
C34_ReorganizeRollsBack ==
  [][api_returns("chaser_confirm_reorganize") =>
       LET fork_point == confirm_api'.arg
           old_height == chaser.confirmed_height
           emitted == confirm_api'.emitted
       IN IF fork_point > old_height
          THEN /\ confirm_api'.ret = FALSE
               /\ emitted = <<>>
               /\ UNCHANGED ccVars
          ELSE /\ confirm_api'.ret = TRUE
               /\ chaser'.confirmed_height = fork_point
               /\ Len(emitted) = old_height - fork_point
               /\ \A i \in 1..Len(emitted) :
                    emitted[i] =
                      Notified("CHASE_REORGANIZED", old_height - i + 1)]_vars

\* C34 witness: a reorganisation rolled back two blocks
C34_Witness ==
  /\ confirm_api.op = "chaser_confirm_reorganize"
  /\ confirm_api.ret = TRUE
  /\ Len(confirm_api.emitted) = 2
  /\ chaser.confirmed_height = 0

(***************************************************************************)
(* Node lifecycle (src/src/app/node.c)                                     *)
(*                                                                         *)
(* The node between node_create and node_destroy.  The listening socket    *)
(* and the sync manager are never created by this node.c (node_start's     *)
(* TODO), so the branches of node_stop that release them are not taken.    *)
(* NODE_STATE_STARTING and NODE_STATE_STOPPING are written and overwritten *)
(* inside node_start and node_stop; no other call runs in between.         *)
(***************************************************************************)
\* peers[NODE_MAX_PEERS] (the program's array is larger)
NODE_MAX_PEERS == 3
\* the outbound connections node_maintenance aims for (scaled down)
ECHO_MAX_OUTBOUND_PEERS == 3
\* readings of plat_time_ms at node_start
NodeClock == {1, 2, 3}

PeerSlots == 1..NODE_MAX_PEERS

NodeLast(op, r) == [op |-> op, ret |-> r]

\* node_create, when every init step succeeded: the node it returns
node_create ==
  /\ node = [state |-> "NODE_STATE_STOPPED",
             shutdown_requested |-> FALSE,
             start_time |-> 0,
             peers |-> [i \in PeerSlots |-> FALSE],
             peer_count |-> 0]
  /\ node_last = NodeLast("node_create", "ECHO_OK")

\* a node_start without the state test
node_start_any(now) ==
  /\ node' = [node EXCEPT !.state = "NODE_STATE_RUNNING",
                          !.start_time = now]
  /\ node_last' = NodeLast("node_start", "ECHO_OK")

node_start(now) ==
  IF node.state # "NODE_STATE_STOPPED"
  THEN /\ node_last' = NodeLast("node_start", "ECHO_ERR_INVALID_STATE")
       /\ UNCHANGED node
  ELSE /\ node' = [node EXCEPT !.state = "NODE_STATE_RUNNING",
                               !.start_time = now]
       /\ node_last' = NodeLast("node_start", "ECHO_OK")

node_stop ==
  /\ node_last' = NodeLast("node_stop", "ECHO_OK")
  /\ IF node.state # "NODE_STATE_RUNNING"
     THEN UNCHANGED node
     ELSE node' = [node EXCEPT !.state = "NODE_STATE_STOPPED",
                               !.peers = [i \in PeerSlots |-> FALSE],
                               !.peer_count = 0]

\* node_disconnect_peer for the peer in slot i
node_disconnect_peer(i) ==
  /\ node_last' = NodeLast("node_disconnect_peer", "ECHO_OK")
  /\ IF node.peers[i]
     THEN node' = [node EXCEPT !.peers[i] = FALSE, !.peer_count = @ - 1]
     ELSE UNCHANGED node

\* node_maintenance, task 4: one outbound connection attempt to the first
\* empty slot; addr_ok: discovery has an address, connect_ok: peer_connect
\* succeeds
node_maintenance(addr_ok, connect_ok) ==
  LET outbound_count == Cardinality({i \in PeerSlots : node.peers[i]})
      empty == {i \in PeerSlots : ~node.peers[i]}
  IN /\ node_last' = NodeLast("node_maintenance", "ECHO_OK")
     /\ IF /\ node.state = "NODE_STATE_RUNNING"
           /\ outbound_count < ECHO_MAX_OUTBOUND_PEERS
           /\ addr_ok /\ connect_ok /\ empty # {}
        THEN node' = [node EXCEPT !.peers[Min(empty)] = TRUE,
                                  !.peer_count = @ + 1]
        ELSE UNCHANGED node

node_request_shutdown ==
  /\ node' = [node EXCEPT !.shutdown_requested = TRUE]
  /\ node_last' = NodeLast("node_request_shutdown", "ECHO_OK")

NodeNext ==
  \/ \E now \in NodeClock : node_start(now) /\ UNCHANGED notNode
  \/ node_stop /\ UNCHANGED notNode
  \/ \E i \in PeerSlots : node_disconnect_peer(i) /\ UNCHANGED notNode
  \/ \E addr_ok, connect_ok \in BOOLEAN :
       node_maintenance(addr_ok, connect_ok) /\ UNCHANGED notNode
  \/ node_request_shutdown /\ UNCHANGED notNode

\* C29: node_start succeeds only when the node is STOPPED, leaving it
\* RUNNING, and otherwise returns ECHO_ERR_INVALID_STATE and changes nothing;
\* node_stop returns ECHO_OK, leaves a RUNNING node STOPPED and changes
\* nothing of a node in another state; no other call changes the state.
C29_StartStopLifecycle ==
  [][/\ node_last'.op = "node_start" =>
          IF node.state = "NODE_STATE_STOPPED"
          THEN /\ node_last'.ret = "ECHO_OK"
               /\ node'.state = "NODE_STATE_RUNNING"
          ELSE /\ node_last'.ret = "ECHO_ERR_INVALID_STATE"
               /\ node' = node
     /\ node_last'.op = "node_stop" =>
          /\ node_last'.ret = "ECHO_OK"
          /\ IF node.state = "NODE_STATE_RUNNING"
             THEN node'.state = "NODE_STATE_STOPPED"
             ELSE node' = node
     /\ node'.state # node.state =>
          node_last'.op \in {"node_start", "node_stop"}]_vars

\* C29 witness: a second node_start on a running node with a connected peer
\* was refused
C29_Witness ==
  /\ node_last.op = "node_start"
  /\ node_last.ret = "ECHO_ERR_INVALID_STATE"
  /\ node.state = "NODE_STATE_RUNNING"
  /\ node.peer_count > 0

(***************************************************************************)
(* Block file storage (src/src/storage/blocks.c)                           *)
(*                                                                         *)
(* One file per height under {data_dir}/blocks/{height/1000}/.  The file   *)
(* system is a map from paths to files; data_dir is fixed for a storage    *)
(* handle and is left out of the paths.  fail names the library call that  *)
(* fails during an operation, if any.                                      *)
(***************************************************************************)
\* ECHO_MAX_BLOCK_SIZE in bytes, scaled down: read refuses files larger than
\* four times this
ECHO_MAX_BLOCK_SIZE == 1
\* blocks per subdirectory
SUBDIR_BLOCKS == 1000

\* heights on both sides of a subdirectory boundary
BlkHeights == {SUBDIR_BLOCKS - 1, SUBDIR_BLOCKS, SUBDIR_BLOCKS + 1}

\* raw block data handed to write: nothing, blocks read accepts, and a
\* block longer than read accepts
BlkData ==
  {<<>>, <<1>>, <<2>>, [i \in 1..(ECHO_MAX_BLOCK_SIZE * 4 + 1) |-> 1]}

get_subdir(height) == height \div SUBDIR_BLOCKS

RECURSIVE decimal(_)
\* the decimal digits of an unsigned number
decimal(n) ==
  IF n < 10 THEN <<n>> ELSE Append(decimal(n \div 10), n % 10)

RECURSIVE zero_pad(_, _)
\* the digits padded with zeros on the left to a width
zero_pad(digits, width) ==
  IF Len(digits) >= width THEN digits
  ELSE zero_pad(<<0>> \o digits, width)

\* a path that names the file by the subdirectory alone
height_path_by_subdir(height) ==
  [subdir |-> decimal(get_subdir(height)),
   name |-> zero_pad(decimal(get_subdir(height)), 9)]

\* block_storage_get_height_path: "%s/%s/%u/%09u.blk"
block_storage_get_height_path(height) ==
  [subdir |-> decimal(get_subdir(height)),
   name |-> zero_pad(decimal(height), 9)]

BlkPaths == {block_storage_get_height_path(h) : h \in BlkHeights}

NoFile == [exists |-> FALSE, data |-> <<>>]
File(data) == [exists |-> TRUE, data |-> data]

BlkLast(op, height, fail, r, data) ==
  [op |-> op, height |-> height, fail |-> fail, ret |-> r, data |-> data]

\* block_storage_create on an empty data directory
block_storage_create ==
  /\ blk_files = [p \in BlkPaths |-> NoFile]
  /\ blk_dirs = {}
  /\ blk_written = [h \in BlkHeights |-> <<>>]
  /\ blk_last = BlkLast("create", 0, "none", "ECHO_OK", <<>>)

WriteFailures == {"none", "mkdir", "fopen", "fwrite", "fflush"}

\* block_storage_write_height; kept: how many bytes of the data are in the
\* file when fflush fails (none, half or all of them)
block_storage_write_height(height, block_data, fail, kept) ==
  LET path == block_storage_get_height_path(height)
      done(r, files, dirs) ==
        /\ blk_files' = files
        /\ blk_dirs' = dirs
        /\ blk_written' =
             [blk_written EXCEPT
                ![height] = IF r = "ECHO_OK" THEN block_data ELSE <<>>]
        /\ blk_last' = BlkLast("write", height, fail, r, block_data)
      made == blk_dirs \cup {path.subdir}
  IN IF Len(block_data) = 0
     THEN done("ECHO_ERR_INVALID_PARAM", blk_files, blk_dirs)
     ELSE IF fail = "mkdir"
     THEN done("ECHO_ERR_PLATFORM_IO", blk_files, blk_dirs)
     ELSE IF fail = "fopen"
     THEN done("ECHO_ERR_PLATFORM_IO", blk_files, made)
     ELSE IF fail = "fwrite"
     THEN done("ECHO_ERR_PLATFORM_IO",
               [blk_files EXCEPT ![path] = NoFile], made)
     ELSE IF fail = "fflush"
     THEN done("ECHO_ERR_PLATFORM_IO",
               [blk_files EXCEPT
                  ![path] = File(SubSeq(block_data, 1, kept))], made)
     ELSE done("ECHO_OK", [blk_files EXCEPT ![path] = File(block_data)],
               made)

ReadFailures == {"none", "fopen", "fseek", "malloc", "fread"}

block_storage_read_height(height, fail) ==
  LET file == blk_files[block_storage_get_height_path(height)]
      file_size == Len(file.data)
      returns(r, data) ==
        /\ blk_last' = BlkLast("read", height, fail, r, data)
        /\ UNCHANGED <<blk_files, blk_dirs, blk_written>>
  IN IF ~file.exists \/ fail = "fopen"
     THEN returns("ECHO_ERR_NOT_FOUND", <<>>)
     ELSE IF fail = "fseek"
     THEN returns("ECHO_ERR_PLATFORM_IO", <<>>)
     ELSE IF file_size <= 0 \/ file_size > ECHO_MAX_BLOCK_SIZE * 4
     THEN returns("ECHO_ERR_INVALID_FORMAT", <<>>)
     ELSE IF fail = "malloc"
     THEN returns("ECHO_ERR_OUT_OF_MEMORY", <<>>)
     ELSE IF fail = "fread"
     THEN returns("ECHO_ERR_TRUNCATED", <<>>)
     ELSE returns("ECHO_OK", file.data)

\* block_storage_prune_height; unlink_ok: whether unlink of an existing
\* file succeeds
block_storage_prune_height(height, unlink_ok) ==
  LET path == block_storage_get_height_path(height)
      pruned(r, files) ==
        /\ blk_files' = files
        /\ blk_written' = [blk_written EXCEPT ![height] = <<>>]
        /\ blk_last' = BlkLast("prune", height,
                               IF unlink_ok THEN "none" ELSE "unlink",
                               r, <<>>)
        /\ UNCHANGED blk_dirs
  IN IF ~blk_files[path].exists
     THEN pruned("ECHO_OK", blk_files)
     ELSE IF unlink_ok
          THEN pruned("ECHO_OK", [blk_files EXCEPT ![path] = NoFile])
          ELSE pruned("ECHO_ERR_PLATFORM_IO", blk_files)

BlkNext ==
  \/ \E height \in BlkHeights, data \in BlkData, fail \in WriteFailures :
       \E kept \in {0, Len(data) \div 2, Len(data)} :
         /\ fail # "fflush" => kept = Len(data)
         /\ block_storage_write_height(height, data, fail, kept)
         /\ UNCHANGED notBlk
  \/ \E height \in BlkHeights, fail \in ReadFailures :
       block_storage_read_height(height, fail) /\ UNCHANGED notBlk
  \/ \E height \in BlkHeights, unlink_ok \in BOOLEAN :
       block_storage_prune_height(height, unlink_ok) /\ UNCHANGED notBlk

\* C30 as stated: read(h) after a successful write(h, b), with no write or
\* prune at h since, succeeds and returns exactly b, whatever b is and
\* whatever was written or pruned at other heights.
C30_ReadReturnsWritten ==
  [][(/\ blk_last'.op = "read"
      /\ blk_written[blk_last'.height] # <<>>) =>
       /\ blk_last'.ret = "ECHO_OK"
       /\ blk_last'.data = blk_written[blk_last'.height]]_vars

\* C30 amended: read(h) after a successful write(h, b), with no write or
\* prune at h since and whatever was written or pruned at other heights,
\* returns exactly b when it returns ECHO_OK; it returns ECHO_OK when b is at
\* most 4 * ECHO_MAX_BLOCK_SIZE bytes long and no library call of read fails,
\* and ECHO_ERR_INVALID_FORMAT when b is longer and the file can be opened.
C30_ReadReturnsWrittenWithinLimit ==
  [][(/\ blk_last'.op = "read"
      /\ blk_written[blk_last'.height] # <<>>) =>
       LET b == blk_written[blk_last'.height]
       IN /\ blk_last'.ret = "ECHO_OK" => blk_last'.data = b
          /\ (/\ Len(b) <= ECHO_MAX_BLOCK_SIZE * 4
              /\ blk_last'.fail = "none") => blk_last'.ret = "ECHO_OK"
          /\ (/\ Len(b) > ECHO_MAX_BLOCK_SIZE * 4
              /\ blk_last'.fail \notin {"fopen", "fseek"}) =>
               blk_last'.ret = "ECHO_ERR_INVALID_FORMAT"]_vars

\* C30 witness: read returned the block written at a height while the file
\* of the next height in the same subdirectory holds another block and the
\* file of a third height was removed after its subdirectory was created
C30_Witness ==
  /\ blk_last.op = "read"
  /\ blk_last.ret = "ECHO_OK"
  /\ blk_last.height = SUBDIR_BLOCKS
  /\ blk_last.data = blk_written[SUBDIR_BLOCKS]
  /\ blk_written[SUBDIR_BLOCKS + 1] \notin {<<>>, blk_last.data}
  /\ ~blk_files[block_storage_get_height_path(SUBDIR_BLOCKS - 1)].exists
  /\ block_storage_get_height_path(SUBDIR_BLOCKS - 1).subdir \in blk_dirs

(***************************************************************************)
(* Script stacks (src/src/consensus/script.c)                              *)
(*                                                                         *)
(* A script context holds a stack and an altstack.  An element is a byte   *)
(* string, named here by a small number.  mem names the allocation that    *)
(* fails during a call, if any.  stack_2dup, stack_3dup and stack_2over    *)
(* keep pointers into the element array across a stack_push that may       *)
(* realloc it: a value read through such a pointer after the array has     *)
(* moved is whatever the freed memory holds.                               *)
(***************************************************************************)
\* SCRIPT_MAX_STACK_SIZE (1000 in the program), scaled down
SCRIPT_MAX_STACK_SIZE == 5
\* STACK_INITIAL_CAPACITY (64 in the program), scaled down
STACK_INITIAL_CAPACITY == 2

StackValues == {1, 2}
StackMem == {"none", "realloc", "malloc"}

\* stack_init
stack_init == [elements |-> <<>>, capacity |-> STACK_INITIAL_CAPACITY]

StackResult(r, s) == [ret |-> r, stack |-> s]

\* stack_ensure_capacity
stack_ensure_capacity(s, mem) ==
  LET new_cap == IF s.capacity * 2 > SCRIPT_MAX_STACK_SIZE
                 THEN SCRIPT_MAX_STACK_SIZE ELSE s.capacity * 2
  IN IF Len(s.elements) >= SCRIPT_MAX_STACK_SIZE
     THEN StackResult("ECHO_ERR_SCRIPT_STACK", s)
     ELSE IF Len(s.elements) >= s.capacity
          THEN IF mem = "realloc"
               THEN StackResult("ECHO_ERR_OUT_OF_MEMORY", s)
               ELSE StackResult("ECHO_OK", [s EXCEPT !.capacity = new_cap])
          ELSE StackResult("ECHO_OK", s)

\* stack_push
stack_push(s, value, mem) ==
  LET pushed(res) ==
        IF res.ret # "ECHO_OK" THEN res
        ELSE IF mem = "malloc"
             THEN StackResult("ECHO_ERR_OUT_OF_MEMORY", res.stack)
             ELSE StackResult("ECHO_OK",
                              [res.stack EXCEPT !.elements = Append(@, value)])
  IN pushed(stack_ensure_capacity(s, mem))

\* whether a push onto s moves the element array
reallocates(s) ==
  Len(s.elements) < SCRIPT_MAX_STACK_SIZE /\ Len(s.elements) >= s.capacity

\* the element at index from the top, 0 being the top
from_top(s, index) == s.elements[Len(s.elements) - index]

stack_pop(s) ==
  IF Len(s.elements) = 0 THEN StackResult("ECHO_ERR_SCRIPT_STACK", s)
  ELSE StackResult("ECHO_OK",
                   [s EXCEPT !.elements = SubSeq(@, 1, Len(@) - 1)])

stack_dup(s, mem) ==
  IF Len(s.elements) = 0 THEN StackResult("ECHO_ERR_SCRIPT_STACK", s)
  ELSE stack_push(s, from_top(s, 0), mem)

stack_swap(s) ==
  LET n == Len(s.elements)
  IN IF n < 2 THEN StackResult("ECHO_ERR_SCRIPT_STACK", s)
     ELSE StackResult("ECHO_OK",
                      [s EXCEPT !.elements[n] = s.elements[n - 1],
                                !.elements[n - 1] = s.elements[n]])

stack_over(s, mem) ==
  IF Len(s.elements) < 2 THEN StackResult("ECHO_ERR_SCRIPT_STACK", s)
  ELSE stack_push(s, from_top(s, 1), mem)

\* stack_tuck: first swap, then over
stack_tuck(s, mem) ==
  IF Len(s.elements) < 2 THEN StackResult("ECHO_ERR_SCRIPT_STACK", s)
  ELSE stack_over(stack_swap(s).stack, mem)

\* the pushes of stack_2dup, stack_3dup and stack_2over: the values are read
\* through pointers taken before the first push; stale is what such a read
\* gives once an earlier push has moved the array
RECURSIVE push_copies(_, _, _, _, _)
push_copies(s, values, moved, stale, mem) ==
  LET next(res) ==
        IF res.ret # "ECHO_OK" THEN res
        ELSE push_copies(res.stack, Tail(values),
                         moved \/ reallocates(s), stale, mem)
  IN IF values = <<>> THEN StackResult("ECHO_OK", s)
     ELSE next(stack_push(s, IF moved THEN stale ELSE Head(values), mem))

stack_2dup(s, stale, mem) ==
  IF Len(s.elements) < 2 THEN StackResult("ECHO_ERR_SCRIPT_STACK", s)
  ELSE push_copies(s, <<from_top(s, 1), from_top(s, 0)>>, FALSE, stale, mem)

stack_3dup(s, stale, mem) ==
  IF Len(s.elements) < 3 THEN StackResult("ECHO_ERR_SCRIPT_STACK", s)
  ELSE push_copies(s, <<from_top(s, 2), from_top(s, 1), from_top(s, 0)>>,
                   FALSE, stale, mem)

stack_2over(s, stale, mem) ==
  IF Len(s.elements) < 4 THEN StackResult("ECHO_ERR_SCRIPT_STACK", s)
  ELSE push_copies(s, <<from_top(s, 3), from_top(s, 2)>>, FALSE, stale, mem)

\* script_context_init
script_context_init ==
  /\ ctx = [stack |-> stack_init, altstack |-> stack_init]
  /\ stack_last = [op |-> "script_context_init", on |-> "stack",
                   ret |-> "ECHO_OK"]

\* a call of a stack function on the stack or the altstack of the context
stack_call(op, on, res) ==
  /\ ctx' = [ctx EXCEPT ![on] = res.stack]
  /\ stack_last' = [op |-> op, on |-> on, ret |-> res.ret]

StackNext ==
  \/ \E on \in {"stack", "altstack"}, value \in StackValues, mem \in StackMem :
       /\ on = "altstack" => value = 1
       /\ stack_call("stack_push", on, stack_push(ctx[on], value, mem))
       /\ UNCHANGED notStack
  \/ \E on \in {"stack", "altstack"} :
       stack_call("stack_pop", on, stack_pop(ctx[on])) /\ UNCHANGED notStack
  \/ \E mem \in StackMem :
       stack_call("stack_dup", "stack", stack_dup(ctx.stack, mem))
       /\ UNCHANGED notStack
  \/ stack_call("stack_swap", "stack", stack_swap(ctx.stack))
     /\ UNCHANGED notStack
  \/ \E mem \in StackMem :
       stack_call("stack_over", "stack", stack_over(ctx.stack, mem))
       /\ UNCHANGED notStack
  \/ \E mem \in StackMem :
       stack_call("stack_tuck", "stack", stack_tuck(ctx.stack, mem))
       /\ UNCHANGED notStack
  \/ \E stale \in StackValues, mem \in StackMem :
       stack_call("stack_2dup", "stack", stack_2dup(ctx.stack, stale, mem))
       /\ UNCHANGED notStack
  \/ \E stale \in StackValues, mem \in StackMem :
       stack_call("stack_3dup", "stack", stack_3dup(ctx.stack, stale, mem))
       /\ UNCHANGED notStack
  \/ \E stale \in StackValues, mem \in StackMem :
       stack_call("stack_2over", "stack", stack_2over(ctx.stack, stale, mem))
       /\ UNCHANGED notStack

\* C31: the number of elements on the stack plus the number on the altstack
\* never exceeds SCRIPT_MAX_STACK_SIZE.
C31_CombinedStackLimit ==
  Len(ctx.stack.elements) + Len(ctx.altstack.elements)
    <= SCRIPT_MAX_STACK_SIZE

\* C40: a call of stack_2dup, stack_3dup, stack_2over or stack_tuck that
\* returns an error because the element limit is reached leaves the stack
\* with the same elements in the same order.
C40_FailedCallLeavesStack ==
  [][(/\ stack_last'.op \in {"stack_2dup", "stack_3dup", "stack_2over",
                             "stack_tuck"}
      /\ stack_last'.ret = "ECHO_ERR_SCRIPT_STACK") =>
       ctx'.stack.elements = ctx.stack.elements]_vars

(***************************************************************************)
(* Specifications: one per component; the other components stay as created *)
(***************************************************************************)
InitDM ==
  /\ MgrInit /\ block_tracker_create(0) /\ IbdInit(GoodChain) /\ ConfirmInit(0)
  /\ node_create
  /\ block_storage_create
  /\ script_context_init

SpecDM == InitDM /\ [][MgrNext]_vars

\* the good peer is a process of its own: it asks for work when it is idle
\* and answers the getdata it was sent; nothing obliges the other peers, the
\* caller of add_work or the performance timer
SpecDMFair ==
  InitDM /\ [][MgrFairNext]_vars /\ WF_vars(GoodRequests) /\ WF_vars(GoodDelivers)

InitBT ==
  /\ MgrInit
  /\ \E tip \in BtHeights : block_tracker_create(tip)
  /\ IbdInit(GoodChain)
  /\ ConfirmInit(0)
  /\ node_create
  /\ block_storage_create
  /\ script_context_init

SpecBT == InitBT /\ [][BtNext]_vars

InitBatch ==
  /\ MgrInit /\ block_tracker_create(0) /\ IbdInit(GoodChain) /\ ConfirmInit(0)
  /\ node_create
  /\ block_storage_create
  /\ script_context_init

SpecBatch == InitBatch /\ [][BatchNext]_vars

InitIBD ==
  /\ MgrInit
  /\ block_tracker_create(0)
  /\ \E blocks \in Chains : IbdInit(blocks)
  /\ ConfirmInit(0)
  /\ node_create
  /\ block_storage_create
  /\ script_context_init

SpecIBD == InitIBD /\ [][IbdNext]_vars

InitConfirm ==
  /\ MgrInit
  /\ block_tracker_create(0)
  /\ IbdInit(GoodChain)
  /\ \E checkpoint \in {0, 1} : ConfirmInit(checkpoint)
  /\ node_create
  /\ block_storage_create
  /\ script_context_init

\* the worker is a thread of its own: the scheduler lets it take the step it
\* is ready for; nothing obliges the dispatcher to deliver an event
SpecConfirm ==
  InitConfirm /\ [][ConfirmNext]_vars /\ WF_vars(WorkerNext /\ UNCHANGED notCc)

\* the same with a second thread that calls the public functions
SpecConfirmApi == InitConfirm /\ [][ConfirmApiNext]_vars

InitNode ==
  /\ MgrInit
  /\ block_tracker_create(0)
  /\ IbdInit(GoodChain)
  /\ ConfirmInit(0)
  /\ node_create
  /\ block_storage_create
  /\ script_context_init

SpecNode == InitNode /\ [][NodeNext]_vars

InitBlk ==
  /\ MgrInit
  /\ block_tracker_create(0)
  /\ IbdInit(GoodChain)
  /\ ConfirmInit(0)
  /\ node_create
  /\ block_storage_create
  /\ script_context_init

SpecBlk == InitBlk /\ [][BlkNext]_vars

InitStack ==
  /\ MgrInit
  /\ block_tracker_create(0)
  /\ IbdInit(GoodChain)
  /\ ConfirmInit(0)
  /\ node_create
  /\ block_storage_create
  /\ script_context_init

SpecStack == InitStack /\ [][StackNext]_vars

====
